---- MODULE Spec2Model ----
(***************************************************************************)
(* A model of the read path of the SQLite file reader: B-tree traversal,   *)
(* the page caches (pagers), cell addressing inside a page and page-flag   *)
(* decoding.  Each part has its own variables and its own specification;   *)
(* a specification leaves the variables of the other parts idle.           *)
(***************************************************************************)
EXTENDS Integers, Sequences, FiniteSets, TLC

VARIABLES
    \* ---- B-tree traversal (src/src/btree/mod.rs, traverse) ----
    file,        \* the pages decoded so far: page id -> [kind, cell_count, children]
    stack,       \* `stack`: Vec<Page>, the last element is the top
    leaf_iter,   \* `leaf_iter`: None, or the leaf being iterated and the next index
    yielded,     \* the cells the iterator has produced, in order
    fetched,     \* page ids requested from the pager so far
    popped,      \* page ids taken off the stack so far
    last,        \* what the last call of the closure returned
    end_pulls,   \* calls of the closure made after it first returned None
    \* ---- the pagers (memory/pager.rs, pager/mod.rs, ctx/pager.rs, page/storage) ----
    variant,     \* which pager implementation this is
    src_len,     \* length in bytes of the byte source
    src_pos,     \* position of the byte source
    page_size,   \* `page_size` (0: the storage's page size is not configured)
    page_cache,  \* `page_cache` / `pages`: page id -> buffer
    result,      \* the last operation, what it did to the source and what it returned
    served,      \* page id -> buffer first returned since the page size was last set
    failed,      \* page ids whose last get failed since the page size was last set
    \* ---- page-flag decoding (btree/page, structures/page) ----
    flag_byte,   \* the first byte of a B-tree page header
    flag_out,    \* the last decoding of flag_byte: which decoder, and what it returned
    \* ---- cell addressing inside a page (btree/page, structures/btree/page.rs) ----
    cell_buf,    \* the page buffer: [offset, buffer], bytes up to the end of the pointer array
    cell_ptrs,   \* the values the cell pointer array of cell_buf was written from
    cell_out,    \* the last cell looked up: which code, which cell, where its bytes begin
    \* ---- the file header (disk/header.rs, structures/header) ----
    hdr_buf,     \* the 100 bytes handed to the header reader
    hdr_out,     \* the last header read: which reader, its outcome, the page size it reports
    \* ---- the page-size field (header/page_size.rs, structures/header/page_size.rs) ----
    raw_size,    \* the raw big-endian u16 page-size field
    size_out,    \* the last decoding of raw_size: which decoder, its outcome and value
    \* ---- varints (structures/var_int.rs, varint.rs) ----
    vi_buf,      \* the bytes handed to the varint decoder
    vi_val,      \* the i64 last encoded (its 64 bits), <<>> before any encoding
    vi_out,      \* the last operation: which, its outcome, the value, the bytes consumed and the rest
    \* ---- payload spill (btree/payload.rs, structures/btree/cell/payload.rs) ----
    pl_in,       \* the header context and the cell read
    pl_out,      \* the payload descriptor
    \* ---- payload chain (memory/chain.rs, btree/payload.rs) ----
    ch_in,       \* the payload descriptor and the pages of the source
    ch_out,      \* the buffer after the copy
    \* ---- records (record.rs) ----
    rec_in,      \* the serial types and body patterns the record was written from
    rec_buf,     \* the bytes handed to Record::from_buf
    rec_out,     \* the record read: its outcome and its fields
    rec_int,     \* the last field asked for its integer, and the answer
    \* ---- seek offsets ----
    off_in,      \* the page-size field of the header and the page id asked for
    off_out,     \* the pager, and the offset it seeks to
    \* ---- statement parser ----
    pr_src,      \* the statement text, or none
    pr_buf,      \* the token buffer
    pr_pos,      \* the offset of the parser's cursor
    pr_out       \* the last call and what it returned

tvars == <<file, stack, leaf_iter, yielded, fetched, popped, last, end_pulls>>
pvars == <<variant, src_len, src_pos, page_size, page_cache, result, served, failed>>

fvars == <<flag_byte, flag_out>>
cvars == <<cell_buf, cell_ptrs, cell_out>>
hvars == <<hdr_buf, hdr_out>>
svars == <<raw_size, size_out>>
ivars == <<vi_buf, vi_val, vi_out>>
lvars == <<pl_in, pl_out>>
nvars == <<ch_in, ch_out>>
rvars == <<rec_in, rec_buf, rec_out, rec_int>>
ovars == <<off_in, off_out>>
xvars == <<pr_src, pr_buf, pr_pos, pr_out>>

vars == <<tvars, pvars, fvars, cvars, hvars, svars, ivars, lvars, nvars, rvars, ovars, xvars>>

\* What each part leaves alone.
OutsideTraverse == <<pvars, fvars, cvars, hvars, svars, ivars, lvars, nvars, rvars, ovars, xvars>>
OutsidePager == <<tvars, fvars, cvars, hvars, svars, ivars, lvars, nvars, rvars, ovars, xvars>>
OutsideFlag == <<tvars, pvars, cvars, hvars, svars, ivars, lvars, nvars, rvars, ovars, xvars>>
OutsideCell == <<tvars, pvars, fvars, hvars, svars, ivars, lvars, nvars, rvars, ovars, xvars>>
OutsideHeader == <<tvars, pvars, fvars, cvars, svars, ivars, lvars, nvars, rvars, ovars, xvars>>
OutsidePageSize == <<tvars, pvars, fvars, cvars, hvars, ivars, lvars, nvars, rvars, ovars, xvars>>
OutsideVarInt == <<tvars, pvars, fvars, cvars, hvars, svars, lvars, nvars, rvars, ovars, xvars>>
OutsidePayload == <<tvars, pvars, fvars, cvars, hvars, svars, ivars, nvars, rvars, ovars, xvars>>
OutsideChain == <<tvars, pvars, fvars, cvars, hvars, svars, ivars, lvars, rvars, ovars, xvars>>
OutsideRecord == <<tvars, pvars, fvars, cvars, hvars, svars, ivars, lvars, nvars, ovars, xvars>>
OutsideOffset == <<tvars, pvars, fvars, cvars, hvars, svars, ivars, lvars, nvars, rvars, xvars>>
OutsideParser == <<tvars, pvars, fvars, cvars, hvars, svars, ivars, lvars, nvars, rvars, ovars>>

\* Option::None of leaf_iter: no leaf is being iterated (page ids start at 1).
None == [page |-> 0, next |-> 0]

(***************************************************************************)
(* Bounds of the model.                                                    *)
(***************************************************************************)
MaxPages == 5      \* page ids of a B-tree are 1..MaxPages
MaxCells == 2      \* a leaf page holds 0..MaxCells cells
MaxLeft == 2       \* an interior page holds 0..MaxLeft cells (left pointers)
MaxEndPulls == 2   \* pulls observed after the traversal has ended
MaxPageId == 3     \* the pagers are asked for page ids up to MaxPageId
MaxSourceBlocks == 8   \* the byte source is 0..MaxSourceBlocks blocks of 256 bytes long
ChainPageSize == 6     \* the page size of the pager an overflow chain is read through
MaxChainPages == 2     \* the source of an overflow chain holds MaxChainPages pages
MaxInPage == 2         \* a payload keeps 0..MaxInPage bytes in its page
MaxPayloadLen == 6     \* a payload is 0..MaxPayloadLen bytes long
MaxFields == 2         \* a record holds 0..MaxFields fields
MaxTokens == 4         \* a token buffer given to step and group holds 0..MaxTokens tokens

(***************************************************************************)
(* B-tree traversal                                                        *)
(***************************************************************************)
RootPage == 1

\* Page::from_buffer: the flag decides leaf or interior, the header gives the
\* cell count.  An interior page has cell_count left pointers and a right
\* pointer; they are read when the page is expanded.
PageHeaders ==
    {[kind |-> "leaf", cell_count |-> n, children |-> <<>>] : n \in 0..MaxCells}
    \cup {[kind |-> "interior", cell_count |-> n, children |-> <<>>] : n \in 0..MaxLeft}

MaxOf(S) == CHOOSE m \in S : \A x \in S : x <= m

\* The pointers still to be read from the interior pages of f not expanded yet.
UnreadPointers(f) ==
    {pi \in (DOMAIN f) \X (1..(MaxLeft + 1)) :
        /\ f[pi[1]].kind = "interior"
        /\ f[pi[1]].children = <<>>
        /\ pi[2] <= f[pi[1]].cell_count + 1}

\* The file is a B-tree of at most MaxPages pages: every pointer still to be
\* read has a page of its own to point to.
FitsFile(f) == MaxOf(DOMAIN f) + Cardinality(UnreadPointers(f)) <= MaxPages

\* The child pointers of interior page p, read from its cells and its header:
\* in a well-formed B-tree each points to a page no other pointer names, so
\* the children are pages not seen before, numbered in the order they appear.
KidChoices(p, n) ==
    LET top == MaxOf(DOMAIN file)
    IN  {[i \in 1..n |-> top + i]}

\* Vec::insert(index, element), index counted from 0.
VecInsertAtEnd(s, index, x) == Append(s, x)

VecInsert(s, index, x) ==
    SubSeq(s, 1, index) \o <<x>> \o SubSeq(s, index + 1, Len(s))

\* The for_each over the left pointers chained with the right pointer: every
\* child is inserted at the same insert_point.
RECURSIVE InsertChildren(_, _, _)
InsertChildren(s, insert_point, kids) ==
    IF kids = <<>> THEN s
    ELSE InsertChildren(VecInsert(s, insert_point, Head(kids)), insert_point, Tail(kids))

\* Vec::pop
StackTop(s) == s[Len(s)]
StackPop(s) == SubSeq(s, 1, Len(s) - 1)

SeqRange(s) == {s[i] : i \in 1..Len(s)}

TraverseInit ==
    /\ \E h \in PageHeaders : file = (RootPage :> h) /\ FitsFile(RootPage :> h)
    /\ stack = <<RootPage>>
    /\ leaf_iter = None
    /\ yielded = <<>>
    /\ fetched = {RootPage}
    /\ popped = {}
    /\ last = "start"
    /\ end_pulls = 0

\* None arm, a leaf page is popped: its pointers are buffered into leaf_iter.
PopLeaf ==
    /\ leaf_iter = None
    /\ stack # <<>>
    /\ file[StackTop(stack)].kind = "leaf"
    /\ leaf_iter' = [page |-> StackTop(stack), next |-> 1]
    /\ stack' = StackPop(stack)
    /\ popped' = popped \cup {StackTop(stack)}
    /\ last' = "skip"
    /\ UNCHANGED <<file, yielded, fetched, end_pulls>>

\* None arm, an interior page is popped: every child is requested from the
\* pager, decoded and inserted at the captured insert_point.
PopInterior ==
    /\ leaf_iter = None
    /\ stack # <<>>
    /\ file[StackTop(stack)].kind = "interior"
    /\ LET p == StackTop(stack)
           rest == StackPop(stack)
           insert_point == Len(rest)
       IN  /\ \E kids \in (IF file[p].children # <<>>
                           THEN {file[p].children}
                           ELSE KidChoices(p, file[p].cell_count + 1)) :
                \E hs \in [SeqRange(kids) \ DOMAIN file -> PageHeaders] :
                   /\ file' = [id \in DOMAIN file \cup DOMAIN hs |->
                                 IF id = p THEN [file[p] EXCEPT !.children = kids]
                                 ELSE IF id \in DOMAIN file THEN file[id]
                                 ELSE hs[id]]
                   /\ FitsFile(file')
                   /\ stack' = InsertChildren(rest, insert_point, kids)
                   /\ fetched' = fetched \cup SeqRange(kids)
           /\ popped' = popped \cup {p}
    /\ last' = "skip"
    /\ UNCHANGED <<leaf_iter, yielded, end_pulls>>

\* Some arm, the leaf iterator has a next pointer: the cell is returned.
IterNext ==
    /\ leaf_iter # None
    /\ leaf_iter.next <= file[leaf_iter.page].cell_count
    /\ yielded' = Append(yielded, <<leaf_iter.page, leaf_iter.next>>)
    /\ leaf_iter' = [leaf_iter EXCEPT !.next = @ + 1]
    /\ last' = "cell"
    /\ UNCHANGED <<file, stack, fetched, popped, end_pulls>>

IterEndKeepsIter ==
    /\ leaf_iter # None
    /\ leaf_iter.next > file[leaf_iter.page].cell_count
    /\ last' = "skip"
    /\ UNCHANGED <<file, stack, leaf_iter, yielded, fetched, popped, end_pulls>>

\* Some arm, the leaf iterator is exhausted: leaf_iter = None.
IterEnd ==
    /\ leaf_iter # None
    /\ leaf_iter.next > file[leaf_iter.page].cell_count
    /\ leaf_iter' = None
    /\ last' = "skip"
    /\ UNCHANGED <<file, stack, yielded, fetched, popped, end_pulls>>

\* None arm, `stack.pop()?` on an empty stack: the closure returns None.
StackEmpty ==
    /\ leaf_iter = None
    /\ stack = <<>>
    /\ end_pulls < MaxEndPulls
    /\ last' = "end"
    /\ end_pulls' = end_pulls + 1
    /\ UNCHANGED <<file, stack, leaf_iter, yielded, fetched, popped>>

TraverseIdle ==
    /\ file = (RootPage :> [kind |-> "leaf", cell_count |-> 0, children |-> <<>>])
    /\ stack = <<>>
    /\ leaf_iter = None
    /\ yielded = <<>>
    /\ fetched = {}
    /\ popped = {}
    /\ last = "start"
    /\ end_pulls = 0

TraverseNext ==
    \/ PopLeaf /\ UNCHANGED OutsideTraverse
    \/ PopInterior /\ UNCHANGED OutsideTraverse
    \/ IterNext /\ UNCHANGED OutsideTraverse
    \/ IterEnd /\ UNCHANGED OutsideTraverse
    \/ StackEmpty /\ UNCHANGED OutsideTraverse


(***************************************************************************)
(* The pagers                                                              *)
(***************************************************************************)
SQLITE_HEADER_SIZE == 100

\* "memory": memory/pager.rs PagerInner; "pager": pager/mod.rs Pager<Source>;
\* "ctx": ctx/pager.rs Pager; "storage": page/storage/readable.rs ReadableStorage.
Variants == {"memory", "pager", "ctx", "storage"}

PageSizes == {512, 1024}

SourceLens == {256 * k : k \in 0..MaxSourceBlocks}

\* The page ids a caller passes: the storage counts pages from 0, pager/mod.rs
\* keeps id 0 for the header page, the others count from 1.
PageIds(v) ==
    IF v = "storage" THEN 0..(MaxPageId - 1)
    ELSE IF v = "pager" THEN 0..MaxPageId
    ELSE 1..MaxPageId

\* The byte of the source at offset i; the source never changes.
SourceByte(i) == (7 * i + (i \div 256)) % 256

\* No buffer (a buffer of no bytes).
NoBuf == [at |-> 0, len |-> 0, offset |-> 0]

\* memory/pager.rs PageId::get_offset
PageIdGetOffset(page_id, size) == (page_id - 1) * size

\* pager/mod.rs PageId::get_offset
PagerModGetOffset(page_id, size) ==
    IF page_id = 1 THEN SQLITE_HEADER_SIZE ELSE page_id * size

\* ctx/pager.rs get_page: (page_size as u32 * (page_id - 1)) as u64.  For the
\* page sizes and page ids of PageSizes and PageIds the u32 product is exact.
CtxGetOffset(page_id, size) == size * (page_id - 1)

\* readable.rs read_page: (page_id * page_size) as u64
StorageGetOffset(page_id, size) == page_id * size

GetOffset(v, page_id, size) ==
    CASE v = "memory" -> PageIdGetOffset(page_id, size)
      [] v = "pager" -> PagerModGetOffset(page_id, size)
      [] v = "ctx" -> CtxGetOffset(page_id, size)
      [] v = "storage" -> StorageGetOffset(page_id, size)

AllocateWithoutHeader(size) == size - SQLITE_HEADER_SIZE

\* MemoryBuffer::allocate(size), PageBuffer::new(size), vec![0; size]: the
\* length of the new buffer.
Allocate(size) == size

\* Read::read takes what is there and reports success.
ReadAvailable(pos, n) ==
    [fault |-> "none",
     pos |-> IF pos + n <= src_len THEN pos + n ELSE IF pos > src_len THEN pos ELSE src_len]

\* Read::read_exact(buf) at source position pos with n = buf.len(): it fills
\* the buffer, or fails with UnexpectedEof when the source ends first.
ReadExact(pos, n) ==
    IF pos + n <= src_len
    THEN [fault |-> "none", pos |-> pos + n]
    ELSE [fault |-> "eof", pos |-> IF pos > src_len THEN pos ELSE src_len]

\* What get returns when read_exact fails: memory/pager.rs and pager/mod.rs
\* return Ok(None) on UnexpectedEof and Err(e) otherwise, ctx/pager.rs unwraps
\* (a panic), readable.rs returns StorageError::Io for both.
GetStatus(v, fault) ==
    CASE fault = "none" -> "ok"
      [] fault # "none" /\ v = "ctx" -> "panic"
      [] fault # "none" /\ v = "storage" -> "io"
      [] fault = "eof" /\ v \in {"memory", "pager"} -> "short"
      [] fault = "io" /\ v \in {"memory", "pager"} -> "io"

CacheInsertNothing(cache, page_id, buf) == cache

\* entry.insert(page) / or_insert_with / page_entry.insert(buf)
CacheInsert(cache, page_id, buf) ==
    [q \in DOMAIN cache \cup {page_id} |-> IF q = page_id THEN buf ELSE cache[q]]

EmptyCache == [q \in {} |-> NoBuf]

NoResult ==
    [op |-> "none", page |-> 0, status |-> "ok", fault |-> "none", buf |-> NoBuf,
     seek |-> -1, read |-> 0, pos_before |-> 0,
     served_before |-> FALSE, failed_before |-> FALSE]

PagerIdle ==
    /\ variant = "memory"
    /\ src_len = 0
    /\ src_pos = 0
    /\ page_size = 0
    /\ page_cache = EmptyCache
    /\ result = NoResult
    /\ served = EmptyCache
    /\ failed = {}

\* Pager::new / PagerInner::new / ReadableStorage::new.  PagerInner::bootstrap
\* starts from PagerInner::new(source, SQLITE_HEADER_SIZE, 16) on a rewound
\* source; the storage starts with no page size.
PagerInit ==
    /\ variant \in Variants
    /\ src_len \in SourceLens
    /\ src_pos = 0
    /\ page_size \in (CASE variant = "storage" -> {0}
                        [] variant = "ctx" -> PageSizes
                        [] OTHER -> PageSizes \cup {SQLITE_HEADER_SIZE})
    /\ page_cache = EmptyCache
    /\ result = NoResult
    /\ served = EmptyCache
    /\ failed = {}

\* PagerInner::get / Pager::get / Pager::get_page / ReadableStorage::read_page
Get(page_id) ==
    /\ result.status # "panic"
    /\ page_id \in PageIds(variant)
    /\ LET before == [NoResult EXCEPT !.op = "get", !.page = page_id,
                                      !.pos_before = src_pos,
                                      !.served_before = page_id \in DOMAIN served,
                                      !.failed_before = page_id \in failed]
       IN
       IF variant = "storage" /\ page_size = 0
       THEN \* get_page_size: StorageError::PageSizeNotConfigured
            /\ result' = [before EXCEPT !.status = "unconfigured"]
            /\ failed' = failed \cup {page_id}
            /\ UNCHANGED <<src_pos, page_cache, served>>
       ELSE IF page_id \in DOMAIN page_cache
       THEN \* Entry::Occupied: a clone of the cached buffer
            /\ result' = [before EXCEPT !.buf = page_cache[page_id]]
            /\ served' = IF page_id \in DOMAIN served THEN served
                         ELSE served @@ (page_id :> page_cache[page_id])
            /\ failed' = failed \ {page_id}
            /\ UNCHANGED <<src_pos, page_cache>>
       ELSE \* Entry::Vacant: seek, allocate, read_exact, insert
            \E io \in BOOLEAN :
               LET page_offset == GetOffset(variant, page_id, page_size)
                   len == Allocate(page_size)
                   rd == IF io THEN [fault |-> "io", pos |-> page_offset]
                         ELSE ReadExact(page_offset, len)
                   status == GetStatus(variant, rd.fault)
                   buf == [at |-> page_offset, len |-> len,
                           offset |-> IF variant = "ctx" /\ page_id = 1
                                      THEN SQLITE_HEADER_SIZE ELSE 0]
               IN  /\ src_pos' = rd.pos
                   /\ result' = [before EXCEPT !.status = status, !.fault = rd.fault,
                                               !.seek = page_offset, !.read = len,
                                               !.buf = IF status = "ok" THEN buf ELSE NoBuf]
                   /\ page_cache' = IF status = "ok"
                                    THEN CacheInsert(page_cache, page_id, buf)
                                    ELSE page_cache
                   /\ served' = IF status = "ok" /\ page_id \notin DOMAIN served
                                THEN served @@ (page_id :> buf) ELSE served
                   /\ failed' = IF status = "ok" THEN failed \ {page_id}
                                ELSE failed \cup {page_id}
    /\ UNCHANGED <<variant, src_len, page_size>>

\* PagerInner::update_page_size / Pager::update_page_size: sets the page size
\* and empties the page cache.
UpdatePageSize(size) ==
    /\ result.status # "panic"
    /\ variant \in {"memory", "pager"}
    /\ page_size' = size
    /\ page_cache' = EmptyCache
    /\ result' = [NoResult EXCEPT !.op = "update", !.pos_before = src_pos]
    /\ served' = EmptyCache
    /\ failed' = {}
    /\ UNCHANGED <<variant, src_len, src_pos>>

\* ReadableStorage::set_page_size: sets the page size.
SetPageSize(size) ==
    /\ variant = "storage"
    /\ page_size' = size
    /\ result' = [NoResult EXCEPT !.op = "update", !.pos_before = src_pos]
    /\ served' = EmptyCache
    /\ failed' = {}
    /\ UNCHANGED <<variant, src_len, src_pos, page_cache>>

\* ReadableStorage::read_start(n): rewinds the source and reads n bytes; the
\* bytes are not cached.
ReadStart(n) ==
    /\ variant = "storage"
    /\ LET rd == ReadExact(0, n)
       IN  /\ src_pos' = rd.pos
           /\ result' = [NoResult EXCEPT !.op = "read_start", !.pos_before = src_pos,
                                         !.fault = rd.fault, !.seek = 0, !.read = n,
                                         !.status = IF rd.fault = "none" THEN "ok" ELSE "io",
                                         !.buf = IF rd.fault = "none"
                                                 THEN [at |-> 0, len |-> n, offset |-> 0]
                                                 ELSE NoBuf]
    /\ UNCHANGED <<variant, src_len, page_size, page_cache, served, failed>>

PagerNext ==
    \/ (\E page_id \in 0..MaxPageId : Get(page_id)) /\ UNCHANGED OutsidePager
    \/ (\E size \in PageSizes : UpdatePageSize(size)) /\ UNCHANGED OutsidePager
    \/ (\E size \in PageSizes : SetPageSize(size)) /\ UNCHANGED OutsidePager
    \/ ReadStart(SQLITE_HEADER_SIZE) /\ UNCHANGED OutsidePager

(***************************************************************************)
(* Page-flag decoding                                                      *)
(***************************************************************************)
Bytes == 0..255

\* Option::None / PageError::UnknownFlag: the byte is not a page flag.
BadFlag == [kind |-> "none", type |-> "none"]

\* flag & MASK for the two masks of the decoder, on a u8.
BitAnd0111(b) == b % 8
BitAnd1000(b) == ((b \div 8) % 2) * 8

\* PageKindFlag::new: MASK = 0b1000.
PageKindFlagNew(flag) ==
    CASE BitAnd1000(flag) = 8 -> "leaf"
      [] BitAnd1000(flag) = 0 -> "interior"
      [] OTHER -> "none"

\* PageTypeFlag::new: MASK = 0b0111.
PageTypeFlagNew(flag) ==
    CASE BitAnd0111(flag) = 5 -> "table"
      [] BitAnd0111(flag) = 2 -> "index"
      [] OTHER -> "none"

\* PageFlag::new: each `?` returns None when its decoder does.
PageFlagNew(flag) ==
    IF PageKindFlagNew(flag) = "none" \/ PageTypeFlagNew(flag) = "none"
    THEN BadFlag
    ELSE [kind |-> PageKindFlagNew(flag), type |-> PageTypeFlagNew(flag)]

\* impl PageFlag for (T, F): the constant of each (type, family) pair.
PageFlagValue ==
    <<[value |-> 2,  kind |-> "interior", type |-> "index"],
      [value |-> 5,  kind |-> "leaf",     type |-> "index"],
      [value |-> 10, kind |-> "interior", type |-> "table"],
      [value |-> 13, kind |-> "leaf",     type |-> "table"]>>

\* AnyPage::try_read: find the pair whose constant is buf[0], else UnknownFlag.
AnyPageTryRead(b) ==
    IF \E k \in DOMAIN PageFlagValue : PageFlagValue[k].value = b
    THEN LET k == CHOOSE j \in DOMAIN PageFlagValue : PageFlagValue[j].value = b
         IN  [kind |-> PageFlagValue[k].kind, type |-> PageFlagValue[k].type]
    ELSE BadFlag

NoDecode == [decoder |-> "none", flag |-> BadFlag]

FlagIdle ==
    /\ flag_byte = 0
    /\ flag_out = NoDecode

FlagInit ==
    /\ flag_byte \in Bytes
    /\ flag_out = NoDecode

\* Page::from_buffer decodes buffer[0] with PageFlag::new.
DecodePageFlagNew ==
    /\ flag_out' = [decoder |-> "btree", flag |-> PageFlagNew(flag_byte)]
    /\ UNCHANGED flag_byte

\* AnyPage::try_read decodes buf[0] against the four constants.
DecodeAnyPage ==
    /\ flag_out' = [decoder |-> "structures", flag |-> AnyPageTryRead(flag_byte)]
    /\ UNCHANGED flag_byte

FlagNext ==
    \/ DecodePageFlagNew /\ UNCHANGED OutsideFlag
    \/ DecodeAnyPage /\ UNCHANGED OutsideFlag

(***************************************************************************)
(* Cell addressing inside a page                                           *)
(***************************************************************************)
\* big_endian::U16 as it lies in the buffer, and U16::get at index `at` of a
\* slice (indices count from 0, as in the code).
U16Bytes(v) == <<v \div 256, v % 256>>
U16GetLittleEndian(slice, at) == slice[at + 2] * 256 + slice[at + 1]
U16Get(slice, at) == slice[at + 1] * 256 + slice[at + 2]

\* PageBufferInner::raw and PageBufferInner::deref.
Raw(buf) == buf.buffer
Deref(buf) == SubSeq(buf.buffer, buf.offset + 1, Len(buf.buffer))

\* The flags a B-tree page starts with, and where its cell content area may
\* begin in a page of 512 bytes.
ValidFlags == {2, 5, 10, 13}
CellAreaStarts == {300, 450}

\* The cell pointer arrays a page may hold: 0..MaxCells cells, each in a slot
\* of its own of the cell content area, in any order.
PointerArrays(cca) ==
    UNION {{ptrs \in [1..n -> {cca + 9 * k : k \in 0..MaxCells}] :
                \A i, j \in 1..n : i # j => ptrs[i] # ptrs[j]} : n \in 0..MaxCells}

\* The bytes of a page up to the end of its cell pointer array: the file
\* header when the view starts after it, the page header (DiskLeafPageHeader,
\* with the right pointer of DiskInteriorPageHeader), the array.
PageBytes(offset, flag, cca, ptrs) ==
    [i \in 1..offset |-> 0]
    \o <<flag>> \o U16Bytes(0) \o U16Bytes(Len(ptrs)) \o U16Bytes(cca) \o <<0>>
    \o (IF PageFlagNew(flag).kind = "interior" THEN <<0, 0, 0, 1>> ELSE <<>>)
    \o [k \in 1..(2 * Len(ptrs)) |-> U16Bytes(ptrs[(k + 1) \div 2])[2 - (k % 2)]]

\* PageCommon::cell_content_area_offset: 0 stands for 65536.
CellContentAreaOffset(raw16) == IF raw16 = 0 THEN 65536 ELSE raw16

\* PageCommon::header_length / the prefix PageOperation::header consumes.
HeaderLength(kind) == IF kind = "leaf" THEN 8 ELSE 12

\* PageCommon::cell_content_pointers: entry i of the array after the header of
\* the dereferenced buffer, made relative to the cell content area.
CellContentPointer(buf, i) ==
    LET view == Deref(buf)
        kind == PageFlagNew(view[1]).kind
    IN  U16Get(view, HeaderLength(kind) + 2 * i)
          - CellContentAreaOffset(U16Get(view, 5))

\* PageCommon::cell_content_area: the index of the raw buffer the slice starts at.
CellContentArea(buf) == CellContentAreaOffset(U16Get(Deref(buf), 5))

\* traverse: &page.cell_content_area()[ptr..], as an index of the raw buffer.
BtreeCellStart(buf, i) == CellContentArea(buf) + CellContentPointer(buf, i)

\* PageType::from_page_flag: bit 3 of the flag.
FromPageFlag(flag) == IF (flag \div 8) % 2 = 1 THEN "leaf" ELSE "interior"

\* PageOperation::get_cell: &self.buf[cell_content_offset..][offset..], as an
\* index of the buffer.
GetCellStart(buf, i) ==
    LET kind == FromPageFlag(buf.buffer[1])
    IN  U16Get(buf.buffer, 5) + U16Get(buf.buffer, HeaderLength(kind) + 2 * i)

\* PageOperation::get_cell_buffer: disk_page.slice(offset..).
GetCellBufferStart(buf, i) ==
    LET kind == FromPageFlag(buf.buffer[1])
    IN  U16Get(buf.buffer, HeaderLength(kind) + 2 * i)

\* cell_count as each page representation reads it.
CellCount(buf) == U16Get(Deref(buf), 3)

NoCell == [code |-> "none", cell |-> 0, start |-> 0]

CellIdle ==
    /\ cell_buf = [offset |-> 0, buffer |-> <<>>]
    /\ cell_ptrs = <<>>
    /\ cell_out = NoCell

\* A page as get_page hands it out: page 1 carries offset SQLITE_HEADER_SIZE,
\* every other page offset 0.
CellInit ==
    /\ \E offset \in {0, SQLITE_HEADER_SIZE}, flag \in ValidFlags, cca \in CellAreaStarts :
         \E ptrs \in PointerArrays(cca) :
            /\ cell_buf = [offset |-> offset, buffer |-> PageBytes(offset, flag, cca, ptrs)]
            /\ cell_ptrs = ptrs
    /\ cell_out = NoCell

\* traverse reads cell i of a page through cell_content_pointers and
\* cell_content_area.
BtreeCell(i) ==
    /\ i < CellCount(cell_buf)
    /\ cell_out' = [code |-> "btree", cell |-> i, start |-> BtreeCellStart(cell_buf, i)]
    /\ UNCHANGED <<cell_buf, cell_ptrs>>

\* PageOperation::get_cell(cell_number); a disk page has no view offset.
GetCell(i) ==
    /\ cell_buf.offset = 0
    /\ i < CellCount(cell_buf)
    /\ cell_out' = [code |-> "get_cell", cell |-> i, start |-> GetCellStart(cell_buf, i)]
    /\ UNCHANGED <<cell_buf, cell_ptrs>>

\* PageOperation::get_cell_buffer(cell_number).
GetCellBuffer(i) ==
    /\ cell_buf.offset = 0
    /\ i < CellCount(cell_buf)
    /\ cell_out' = [code |-> "get_cell_buffer", cell |-> i,
                    start |-> GetCellBufferStart(cell_buf, i)]
    /\ UNCHANGED <<cell_buf, cell_ptrs>>

CellNext ==
    \/ (\E i \in 0..(MaxCells - 1) : BtreeCell(i)) /\ UNCHANGED OutsideCell
    \/ (\E i \in 0..(MaxCells - 1) : GetCell(i)) /\ UNCHANGED OutsideCell
    \/ (\E i \in 0..(MaxCells - 1) : GetCellBuffer(i)) /\ UNCHANGED OutsideCell

(***************************************************************************)
(* The file header                                                         *)
(***************************************************************************)
\* HEADER_STRING / HeaderString::BYTES: b"SQLite format 3\0".
HEADER_STRING == <<83, 81, 76, 105, 116, 101, 32, 102, 111, 114, 109, 97, 116, 32, 51, 0>>

\* big_endian::U32 as it lies in the buffer, and U32::get at index `at`.
U32Bytes(v) == <<v \div 16777216, (v \div 65536) % 256, (v \div 256) % 256, v % 256>>
U32Get(slice, at) ==
    ((slice[at + 1] * 256 + slice[at + 2]) * 256 + slice[at + 3]) * 256 + slice[at + 4]

\* The bytes of the field of `size` bytes at `offset` (assert_layout).
Field(buf, offset, size) == SubSeq(buf, offset + 1, offset + size)

\* u16::is_power_of_two / u32::is_power_of_two: exactly one bit is set.
RECURSIVE IsPowerOfTwo(_)
IsPowerOfTwo(n) ==
    IF n = 0 THEN FALSE
    ELSE IF n = 1 THEN TRUE
    ELSE n % 2 = 0 /\ IsPowerOfTwo(n \div 2)

\* impl TryFrom<u16> for PageSize (header/page_size.rs).
PageSizeTryFrom(value) ==
    IF ~(512 <= value /\ value <= 32768) /\ value # 1
    THEN [status |-> "Range", value |-> 0]
    ELSE IF ~IsPowerOfTwo(value)
    THEN [status |-> "PowerOfTwo", value |-> 0]
    ELSE [status |-> "ok", value |-> IF value = 1 THEN 65536 ELSE value]

PageSizeTryGetNoSentinel(n) ==
    IF n # 1 /\ ~(512 <= n /\ n <= 32768) THEN [status |-> "Range", value |-> 0]
    ELSE IF ~IsPowerOfTwo(n) THEN [status |-> "PowerOfTwo", value |-> 0]
    ELSE [status |-> "ok", value |-> n]

\* PageSize::try_get (structures/header/page_size.rs).
PageSizeTryGet(n) ==
    IF n = 1 THEN [status |-> "ok", value |-> 65536]
    ELSE IF ~(512 <= n /\ n <= 32768) THEN [status |-> "Range", value |-> 0]
    ELSE IF ~IsPowerOfTwo(n) THEN [status |-> "PowerOfTwo", value |-> 0]
    ELSE [status |-> "ok", value |-> n]

\* The page-size check of SqliteHeader::validate (disk/header.rs) and
\* SqliteHeader::page_size.
DiskPageSizeCheck(n) ==
    IF n # 1 /\ ~(512 <= n /\ n <= 32768)
    THEN [status |-> "Range", value |-> 0]
    ELSE IF ~IsPowerOfTwo(n)
    THEN [status |-> "PowerOfTwo", value |-> 0]
    ELSE [status |-> "ok", value |-> IF n = 1 THEN 65536 ELSE n]

\* ConstU8<N>: the byte must be N.
ConstU8Ok(byte, n) == byte = n

\* TryFromPrimitive of FileFormatVersion, SchemaFormat and TextEncoding.
FileFormatVersionOk(v) == v \in {1, 2}
SchemaFormatOk(v) == v \in {1, 2, 3, 4}
TextEncodingOk(v) == v \in {1, 2, 3}

\* Reserved: all bytes are zero.
ReservedOk(bytes) == \A k \in DOMAIN bytes : bytes[k] = 0

\* SqliteHeader::validate of disk/header.rs: the first check that fails.
DiskValidate(buf) ==
    IF Field(buf, 0, 16) # HEADER_STRING THEN "HeaderString"
    ELSE IF DiskPageSizeCheck(U16Get(buf, 16)).status # "ok"
    THEN DiskPageSizeCheck(U16Get(buf, 16)).status
    ELSE IF ~FileFormatVersionOk(buf[20]) THEN "EnumU8"
    ELSE IF ~FileFormatVersionOk(buf[19]) THEN "EnumU8"
    ELSE IF ~SchemaFormatOk(U32Get(buf, 44)) THEN "EnumU32"
    ELSE IF ~ConstU8Ok(buf[22], 64) THEN "ConstU8"
    ELSE IF ~ConstU8Ok(buf[23], 32) THEN "ConstU8"
    ELSE IF ~ConstU8Ok(buf[24], 32) THEN "ConstU8"
    ELSE IF ~TextEncodingOk(U32Get(buf, 56)) THEN "EnumU32"
    ELSE IF ~ReservedOk(Field(buf, 72, 20)) THEN "Reserved"
    ELSE "ok"

\* SqliteHeader::read_from_buffer, with page_size() of the header it returns.
ReadFromBuffer(buf) ==
    IF Len(buf) # SQLITE_HEADER_SIZE THEN [status |-> "BinarySize", page_size |-> 0]
    ELSE IF DiskValidate(buf) # "ok" THEN [status |-> DiskValidate(buf), page_size |-> 0]
    ELSE [status |-> "ok", page_size |-> DiskPageSizeCheck(U16Get(buf, 16)).value]

\* SqliteHeader<Invalid>::validate of structures/header/mod.rs.
StructuresValidate(buf) ==
    IF Field(buf, 0, 16) # HEADER_STRING THEN "HeaderString"
    ELSE IF PageSizeTryGet(U16Get(buf, 16)).status # "ok"
    THEN PageSizeTryGet(U16Get(buf, 16)).status
    ELSE IF ~ConstU8Ok(buf[22], 64) THEN "ConstU8"
    ELSE IF ~ConstU8Ok(buf[23], 32) THEN "ConstU8"
    ELSE IF ~ConstU8Ok(buf[24], 32) THEN "ConstU8"
    ELSE IF ~ReservedOk(Field(buf, 72, 20)) THEN "Reserved"
    ELSE "ok"

\* SqliteHeader::try_read of structures/header/mod.rs.
TryRead(buf) ==
    IF Len(buf) # SQLITE_HEADER_SIZE THEN [status |-> "BinarySize", page_size |-> 0]
    ELSE IF StructuresValidate(buf) # "ok"
    THEN [status |-> StructuresValidate(buf), page_size |-> 0]
    ELSE [status |-> "ok", page_size |-> PageSizeTryGet(U16Get(buf, 16)).value]

\* The headers read: each validated field right or wrong, every other byte
\* 0 or 255.
HeaderFields ==
    [magic : {HEADER_STRING, [HEADER_STRING EXCEPT ![16] = 32]},
     page_size : {4096, 1, 1234, 0},
     write_version : {1, 0},
     read_version : {2, 3},
     page_end_padding : {0, 8},
     fractions : {<<64, 32, 32>>, <<63, 32, 32>>, <<64, 33, 32>>, <<64, 32, 0>>},
     schema_format : {4, 0},
     text_encoding : {1, 3, 0, 4},
     reserved : {0, 20},
     fill : {0, 255}]

\* The 100 bytes of a header with the fields h, in the layout of SqliteHeader.
HeaderBytes(h) ==
    h.magic
    \o U16Bytes(h.page_size)
    \o <<h.write_version, h.read_version, h.page_end_padding>>
    \o h.fractions
    \o [k \in 1..20 |-> h.fill]
    \o U32Bytes(h.schema_format)
    \o [k \in 1..8 |-> h.fill]
    \o U32Bytes(h.text_encoding)
    \o [k \in 1..12 |-> h.fill]
    \o [k \in 1..20 |-> IF k = h.reserved THEN 1 ELSE 0]
    \o [k \in 1..8 |-> h.fill]

NoHeader == [reader |-> "none", status |-> "none", page_size |-> 0]

HeaderIdle ==
    /\ hdr_buf = <<>>
    /\ hdr_out = NoHeader

HeaderInit ==
    /\ \E h \in HeaderFields : hdr_buf = HeaderBytes(h)
    /\ hdr_out = NoHeader

\* disk/header.rs: SqliteHeader::read_from_buffer(buf).
DiskReadHeader ==
    /\ hdr_out' = [reader |-> "disk",
                   status |-> ReadFromBuffer(hdr_buf).status,
                   page_size |-> ReadFromBuffer(hdr_buf).page_size]
    /\ UNCHANGED hdr_buf

\* structures/header/mod.rs: SqliteHeader::try_read(buf).
StructuresReadHeader ==
    /\ hdr_out' = [reader |-> "structures",
                   status |-> TryRead(hdr_buf).status,
                   page_size |-> TryRead(hdr_buf).page_size]
    /\ UNCHANGED hdr_buf

HeaderNext ==
    \/ DiskReadHeader /\ UNCHANGED OutsideHeader
    \/ StructuresReadHeader /\ UNCHANGED OutsideHeader

(***************************************************************************)
(* The page-size field                                                     *)
(***************************************************************************)
NoSize == [decoder |-> "none", status |-> "none", value |-> 0]

PageSizeIdle ==
    /\ raw_size = 0
    /\ size_out = NoSize

\* Every value of the raw u16 field.
PageSizeInit ==
    /\ raw_size \in 0..65535
    /\ size_out = NoSize

\* header/page_size.rs: PageSize::try_from(raw).
DecodeTryFrom ==
    /\ size_out' = [decoder |-> "header",
                    status |-> PageSizeTryFrom(raw_size).status,
                    value |-> PageSizeTryFrom(raw_size).value]
    /\ UNCHANGED raw_size

\* structures/header/page_size.rs: page_size.try_get().
DecodeTryGet ==
    /\ size_out' = [decoder |-> "structures",
                    status |-> PageSizeTryGet(raw_size).status,
                    value |-> PageSizeTryGet(raw_size).value]
    /\ UNCHANGED raw_size

\* disk/header.rs: the page-size check of validate, then page_size().
DecodeDisk ==
    /\ size_out' = [decoder |-> "disk",
                    status |-> DiskPageSizeCheck(raw_size).status,
                    value |-> DiskPageSizeCheck(raw_size).value]
    /\ UNCHANGED raw_size

PageSizeNext ==
    \/ DecodeTryFrom /\ UNCHANGED OutsidePageSize
    \/ DecodeTryGet /\ UNCHANGED OutsidePageSize
    \/ DecodeDisk /\ UNCHANGED OutsidePageSize

(***************************************************************************)
(* Varints                                                                 *)
(***************************************************************************)
\* An i64 is its 64 bits in two's complement, most significant bit first.
Zeros(n) == [k \in 1..n |-> 0]

\* The low n bits of the byte x, most significant first.
LowBits(x, n) == [k \in 1..n |-> (x \div (2 ^ (n - k))) % 2]

\* `x as i64` for a u8 x.
U8AsI64(x) == Zeros(56) \o LowBits(x, 8)

\* `n as u8` for an i64 n.
I64AsU8(n) ==
    n[57] * 128 + n[58] * 64 + n[59] * 32 + n[60] * 16 + n[61] * 8 + n[62] * 4
        + n[63] * 2 + n[64]

\* value << shift on an i64: the bits shifted out are lost.
Shl(value, shift) == SubSeq(value, shift + 1, 64) \o Zeros(shift)

\* n >> 7 on an i64: the sign bit is shifted in.
Shr7(n) == [k \in 1..7 |-> n[1]] \o SubSeq(n, 1, 57)

\* n > 0 and n == 0 on an i64.
IsZero(n) == \A k \in 1..64 : n[k] = 0
IsPositive(n) == n[1] = 0 /\ ~IsZero(n)

\* a + b on 64 bits, added byte by byte: byte j of n (1 is the most
\* significant), and the bytes 1..j of the sum given the carry into byte j.
ByteAt(n, j) ==
    n[8 * j - 7] * 128 + n[8 * j - 6] * 64 + n[8 * j - 5] * 32
        + n[8 * j - 4] * 16 + n[8 * j - 3] * 8 + n[8 * j - 2] * 4
        + n[8 * j - 1] * 2 + n[8 * j]

RECURSIVE SumBytes(_, _, _, _)
SumBytes(a, b, j, carry) ==
    IF j = 0 THEN <<>>
    ELSE LET s == ByteAt(a, j) + ByteAt(b, j) + carry
         IN  IF s < 256 THEN Append(SumBytes(a, b, j - 1, 0), s)
             ELSE Append(SumBytes(a, b, j - 1, 1), s - 256)

WrappingAdd(a, b) ==
    LET bytes == SumBytes(a, b, 8, 0)
    IN  [k \in 1..64 |-> (bytes[((k - 1) \div 8) + 1] \div (2 ^ (7 - ((k - 1) % 8)))) % 2]

\* a + b overflows an i64: the operands have one sign and the sum the other.
AddOverflows(a, b) == a[1] = b[1] /\ WrappingAdd(a, b)[1] # a[1]

\* 0xffu8 >> (1 - (i / 8)), and b & mask.
Mask(i) == IF i \div 8 = 0 THEN 127 ELSE 255
BitAndMask(b, mask) == IF mask = 127 THEN b % 128 ELSE b

\* The loop of VarInt::from_buffer from iteration i on: for (i, b) in
\* buf.iter().take(9).enumerate().  `overflow`: an addition has overflowed.
RECURSIVE FromBufferLoop(_, _, _, _)
FromBufferLoop(buf, i, value, overflow) ==
    IF i >= Len(buf) \/ i >= 9
    THEN [value |-> value, consumed |-> i, overflow |-> overflow]
    ELSE LET b == buf[i + 1]
             shift == 7 + (i \div 8)
             shifted == Shl(value, shift)
             addend == U8AsI64(BitAndMask(b, Mask(i)))
             sum == WrappingAdd(shifted, addend)
             ovf == overflow \/ AddOverflows(shifted, addend)
         IN  IF b \div 128 = 0
             THEN [value |-> sum, consumed |-> i + 1, overflow |-> ovf]
             ELSE FromBufferLoop(buf, i + 1, sum, ovf)

\* VarInt::from_buffer: the value and the rest of the buffer.  It has no
\* error return; an overflowing addition panics or wraps with the build.
FromBuffer(buf) ==
    LET r == FromBufferLoop(buf, 0, Zeros(64), FALSE)
    IN  [status |-> IF r.overflow THEN "overflow" ELSE "ok",
         value |-> r.value,
         consumed |-> r.consumed,
         rest |-> SubSeq(buf, r.consumed + 1, Len(buf))]

\* The loop of VarInt::to_bytes: while n > 0 { bytes.push(..); n >>= 7 }.
RECURSIVE ToBytesLoop(_, _)
ToBytesLoop(n, bytes) ==
    IF ~IsPositive(n) THEN bytes
    ELSE ToBytesLoop(Shr7(n), Append(bytes, (I64AsU8(n) % 128) + 128))

\* bytes.reverse().
Reverse(s) == [k \in 1..Len(s) |-> s[Len(s) + 1 - k]]

\* VarInt::to_bytes: expect("0 already handled") panics on an empty vector.
ToBytes(v) ==
    IF IsZero(v) THEN [status |-> "ok", bytes |-> <<0>>]
    ELSE LET bytes == Reverse(ToBytesLoop(v, <<>>))
         IN  IF bytes = <<>> THEN [status |-> "panic", bytes |-> <<>>]
             ELSE [status |-> "ok",
                   bytes |-> [bytes EXCEPT ![Len(bytes)] = @ % 128]]

\* The buffers decoded: n bytes with the high bit set, n = 0..9, then up to
\* two more bytes.
Tails == {<<>>} \cup {<<x>> : x \in {0, 127, 129, 255}}
              \cup {<<x, y>> : x, y \in {0, 127, 129, 255}}
InputBuffers == {[k \in 1..n |-> h] \o tail : n \in 0..9, h \in {129, 255}, tail \in Tails}

\* The i64 values encoded: 0, 2^n - 1 for n = 1..64 (-1 for 64) and 2^n for
\* n = 0..63 (i64::MIN for 63).
Values == {Zeros(64)}
            \cup {Zeros(64 - n) \o [k \in 1..n |-> 1] : n \in 1..64}
            \cup {[k \in 1..64 |-> IF k = 64 - n THEN 1 ELSE 0] : n \in 0..63}

NoVarInt == [op |-> "none", status |-> "none", value |-> <<>>, consumed |-> 0, rest |-> <<>>]

VarIntIdle ==
    /\ vi_buf = <<>>
    /\ vi_val = <<>>
    /\ vi_out = NoVarInt

VarIntInit ==
    /\ vi_buf \in InputBuffers
    /\ vi_val = <<>>
    /\ vi_out = NoVarInt

\* structures/var_int.rs: VarInt::from_buffer(buf).
DecodeFromBuffer ==
    /\ vi_out.status # "panic"
    /\ LET r == FromBuffer(vi_buf)
       IN  vi_out' = [op |-> "from_buffer", status |-> r.status,
                      value |-> r.value, consumed |-> r.consumed,
                      rest |-> r.rest]
    /\ UNCHANGED <<vi_buf, vi_val>>

\* varint.rs: VarInt::from_bytes(bytes), the same loop; only the value is
\* returned.
DecodeFromBytes ==
    /\ vi_out.status # "panic"
    /\ LET r == FromBuffer(vi_buf)
       IN  vi_out' = [op |-> "from_bytes", status |-> r.status,
                      value |-> r.value, consumed |-> r.consumed,
                      rest |-> <<>>]
    /\ UNCHANGED <<vi_buf, vi_val>>

\* VarInt(v).to_bytes(): the bytes become the buffer to decode.  The result
\* does not depend on the state before, so the call is made from the empty
\* buffer only.
EncodeToBytes(v) ==
    /\ vi_buf = <<>> /\ vi_val = <<>> /\ vi_out = NoVarInt
    /\ LET r == ToBytes(v)
       IN  /\ vi_val' = v
           /\ vi_buf' = r.bytes
           /\ vi_out' = [op |-> "to_bytes", status |-> r.status, value |-> v,
                         consumed |-> 0, rest |-> <<>>]

VarIntNext ==
    \/ DecodeFromBuffer /\ UNCHANGED OutsideVarInt
    \/ DecodeFromBytes /\ UNCHANGED OutsideVarInt
    \/ (\E v \in Values : EncodeToBytes(v)) /\ UNCHANGED OutsideVarInt

(***************************************************************************)
(* Payload spill                                                           *)
(***************************************************************************)
\* a % b on isize: the remainder has the sign of the dividend.
Rem(a, b) == IF a >= 0 THEN a % b ELSE 0 - ((0 - a) % b)

\* U: ctx.page_size - ctx.page_end_padding.
UsableSpace(size, padding) == size - padding

\* X: PayloadCalculation::max_page_payload for Table and for Index.
MaxPagePayloadIndexForBoth(kind, usable_space) ==
    (((usable_space - 12) * 64) \div 255) - 23

MaxPagePayload(kind, usable_space) ==
    IF kind = "table" THEN usable_space - 35
    ELSE (((usable_space - 12) * 64) \div 255) - 23

\* M: ((usable_space - 12) * 32 / 255) - 23.
MinPagePayloadLess32(usable_space) == (((usable_space - 12) * 32) \div 255) - 32

MinPagePayload(usable_space) == (((usable_space - 12) * 32) \div 255) - 23

\* k: min_page_payload + ((payload_size - min_page_payload) % (usable_space - 4)),
\* computed on isize.
SpillKWithoutMin(payload_size, usable_space) ==
    Rem(payload_size - MinPagePayload(usable_space), usable_space - 4)

SpillK(payload_size, usable_space) ==
    MinPagePayload(usable_space)
        + Rem(payload_size - MinPagePayload(usable_space), usable_space - 4)

\* The match on (payload_size.cmp(&max_page_payload), k.cmp(&max_page_payload)):
\* the bytes stored on the page and whether the payload overflows.  k is cast
\* to usize, so a negative k compares greater.
Split(kind, payload_size, usable_space) ==
    LET x == MaxPagePayload(kind, usable_space)
        k == SpillK(payload_size, usable_space)
    IN  IF payload_size <= x
        THEN [stored |-> payload_size, overflow |-> FALSE]
        ELSE IF k >= 0 /\ k <= x
        THEN [stored |-> k, overflow |-> TRUE]
        ELSE [stored |-> MinPagePayload(usable_space), overflow |-> TRUE]

\* btree/payload.rs: Payload::from_buf_with_payload_size.  `after`: the four
\* bytes of the cell content area at base_offset_end.
BtreeFromBufWithPayloadSize(size, padding, kind, offset, payload_size, after) ==
    LET s == Split(kind, payload_size, UsableSpace(size, padding))
    IN  [impl |-> "btree", status |-> "ok", length |-> payload_size,
         base_offset |-> offset, base_offset_end |-> offset + s.stored,
         next_page |-> IF s.overflow THEN <<U32Get(after, 0)>> ELSE <<>>]

\* structures/btree/cell/payload.rs: Payload::from_buf_with_payload_size.  The
\* buffer starts at the payload; a zero overflow page number fails the unwrap
\* of NonZeroUsize::new.
StructuresFromBufWithPayloadSize(size, padding, kind, payload_size, after) ==
    LET s == Split(kind, payload_size, UsableSpace(size, padding))
    IN  IF s.overflow /\ U32Get(after, 0) = 0
        THEN [impl |-> "structures", status |-> "panic", length |-> payload_size,
              base_offset |-> 0, base_offset_end |-> 0, next_page |-> <<>>]
        ELSE [impl |-> "structures", status |-> "ok", length |-> payload_size,
              base_offset |-> 0, base_offset_end |-> s.stored,
              next_page |-> IF s.overflow THEN <<U32Get(after, 0)>> ELSE <<>>]

\* The page sizes and end paddings of the headers read.
PayloadPageSizes == {512, 4096, 65536}
PagePaddings == {0, 32, 255}

\* The payload sizes read: around the thresholds of the page, and 10000.
PayloadSizes(kind, usable_space) ==
    LET x == MaxPagePayload(kind, usable_space)
        m == MinPagePayload(usable_space)
    IN  {0, 1, m, x - 1, x, x + 1, usable_space, usable_space + m - 4,
         usable_space + x - 4, usable_space + x - 3, 10000}

\* The four bytes after the in-page payload.
AfterBytes == {<<0, 0, 0, 0>>, <<0, 0, 0, 2>>, <<0, 1, 0, 0>>, <<1, 2, 3, 4>>}

NoPayloadInput ==
    [page_size |-> 0, padding |-> 0, kind |-> "none", offset |-> 0,
     payload_size |-> 0, after |-> <<>>]
NoPayload ==
    [impl |-> "none", status |-> "none", length |-> 0, base_offset |-> 0,
     base_offset_end |-> 0, next_page |-> <<>>]

PayloadIdle ==
    /\ pl_in = NoPayloadInput
    /\ pl_out = NoPayload

PayloadInit ==
    /\ \E size \in PayloadPageSizes, padding \in PagePaddings,
          kind \in {"table", "index"}, offset \in {0, 8}, after \in AfterBytes :
          \E payload_size \in PayloadSizes(kind, UsableSpace(size, padding)) :
             pl_in = [page_size |-> size, padding |-> padding, kind |-> kind,
                      offset |-> offset, payload_size |-> payload_size,
                      after |-> after]
    /\ pl_out = NoPayload

\* The headers that pass validation and their end paddings: every page size
\* that is a power of two from 512 to 65536, every u8 padding; the payload is
\* one byte longer than fits the page.
ValidatedPageSizes == {2 ^ e : e \in 9..16}
EndPaddings == 0..255

ThresholdInit ==
    /\ \E size \in ValidatedPageSizes, padding \in EndPaddings,
          kind \in {"table", "index"} :
          pl_in = [page_size |-> size, padding |-> padding, kind |-> kind,
                   offset |-> 8,
                   payload_size |-> MaxPagePayload(kind, UsableSpace(size, padding)) + 1,
                   after |-> <<0, 0, 0, 2>>]
    /\ pl_out = NoPayload

\* btree/payload.rs: a cell of the page is read.
BtreeReadPayload ==
    /\ pl_out' = BtreeFromBufWithPayloadSize(pl_in.page_size, pl_in.padding,
                     pl_in.kind, pl_in.offset, pl_in.payload_size, pl_in.after)
    /\ UNCHANGED pl_in

\* structures/btree/cell/payload.rs: a cell of the page is read.
StructuresReadPayload ==
    /\ pl_out' = StructuresFromBufWithPayloadSize(pl_in.page_size, pl_in.padding,
                     pl_in.kind, pl_in.payload_size, pl_in.after)
    /\ UNCHANGED pl_in

PayloadNext ==
    \/ BtreeReadPayload /\ UNCHANGED OutsidePayload
    \/ StructuresReadPayload /\ UNCHANGED OutsidePayload

(***************************************************************************)
(* Payload chain                                                           *)
(***************************************************************************)
\* The pages of the source: page p starts with the big-endian number of the
\* next page, ptrs[p], and continues with bytes that name the page and the
\* position.
ChainPage(p, ptr) ==
    U32Bytes(ptr) \o [j \in 1..(ChainPageSize - 4) |-> 16 * p + 4 + j]
ChainFile(ptrs) == [p \in 1..Len(ptrs) |-> ChainPage(p, ptrs[p])]

\* Chain::pages after the current page: pager.get(page_id).unwrap().unwrap()
\* for each page id, the next id read from the first four bytes of the page.
\* A page beyond the end of the source fails the unwrap.  When a page comes
\* again the iterator never ends; `seen` finds that case.
RECURSIVE OverflowPages(_, _, _)
OverflowPages(source, page_id, seen) ==
    IF page_id = 0 THEN [status |-> "ok", pages |-> <<>>]
    ELSE IF page_id > Len(source) THEN [status |-> "panic", pages |-> <<>>]
    ELSE IF page_id \in seen THEN [status |-> "diverges", pages |-> <<>>]
    ELSE LET page == source[page_id]
             rest == OverflowPages(source, U32Get(page, 0), seen \cup {page_id})
         IN  [status |-> rest.status, pages |-> <<page>> \o rest.pages]

\* Chain::pages: the current page, then the overflow pages.
ChainPages(source, current_page, next_page) ==
    LET rest == OverflowPages(source, next_page, {})
    IN  [status |-> rest.status, pages |-> <<current_page>> \o rest.pages]

\* skip_while: the pages that end before `offset` are skipped.
RECURSIVE SkipWhile(_, _, _)
SkipWhile(pages, pos, offset) ==
    IF pages = <<>> THEN [pages |-> <<>>, pos |-> pos]
    ELSE IF pos + Len(Head(pages)) < offset
    THEN SkipWhile(Tail(pages), pos + Len(Head(pages)), offset)
    ELSE [pages |-> pages, pos |-> pos]

\* The loop of Chain::copy_to_slice: `b_len` bytes of the buffer are still to
\* be written, `out` is what has been written.
RECURSIVE CopyLoop(_, _, _)
CopyLoop(pages, b_len, out) ==
    IF pages = <<>> THEN [status |-> "panic", buf |-> out]
    ELSE LET data == Head(pages)
         IN  IF b_len > Len(data)
             THEN CopyLoop(Tail(pages), b_len - Len(data), out \o data)
             ELSE [status |-> "ok", buf |-> out \o SubSeq(data, 1, b_len)]

\* Chain::copy_to_slice(offset, buf) with a buffer of buf_len bytes: all the
\* pages are collected, the first is sliced from offset - pos.
ChainCopyToSlice(source, current_page, next_page, offset, buf_len) ==
    LET all == ChainPages(source, current_page, next_page)
        kept == SkipWhile(all.pages, 0, offset)
    IN  IF all.status # "ok" THEN [status |-> all.status, buf |-> <<>>]
        ELSE IF kept.pages = <<>> THEN [status |-> "panic", buf |-> <<>>]
        ELSE IF offset - kept.pos > Len(Head(kept.pages))
        THEN [status |-> "panic", buf |-> <<>>]
        ELSE CopyLoop(<<SubSeq(Head(kept.pages), offset - kept.pos + 1,
                               Len(Head(kept.pages)))>> \o Tail(kept.pages),
                      buf_len, <<>>)

\* btree/payload.rs: Payload::copy_to_slice with a buffer of self.length
\* bytes.  A payload with an overflow page fails the assertion; copy_from_slice
\* panics unless the in-page bytes fill the buffer.
PayloadCopyToSlice(current_page, next_page, buf_len) ==
    IF next_page # 0 THEN [status |-> "panic", buf |-> <<>>]
    ELSE IF Len(current_page) # buf_len THEN [status |-> "panic", buf |-> <<>>]
    ELSE [status |-> "ok", buf |-> current_page]

\* The in-page bytes of a payload: n bytes of the source page.
InPageBytes(n) == [j \in 1..n |-> 200 + j]

NoChainInput ==
    [ptrs |-> <<>>, in_page |-> 0, next_page |-> 0, length |-> 0, padding |-> 0]
NoCopy == [op |-> "none", status |-> "none", buf |-> <<>>]

ChainIdle ==
    /\ ch_in = NoChainInput
    /\ ch_out = NoCopy

\* A payload descriptor: its in-page bytes hold the whole payload when there
\* is no overflow page and less than the payload when there is one.
ChainInit ==
    /\ \E ptrs \in [1..MaxChainPages -> 0..(MaxChainPages + 1)],
          in_page \in 0..MaxInPage, next_page \in 0..(MaxChainPages + 1),
          length \in 0..MaxPayloadLen, padding \in {0, 1} :
          /\ next_page = 0 => length = in_page
          /\ next_page # 0 => length > in_page
          /\ ch_in = [ptrs |-> ptrs, in_page |-> in_page, next_page |-> next_page,
                      length |-> length, padding |-> padding]
    /\ ch_out = NoCopy

\* memory/chain.rs: the payload's chain is copied from its start into a
\* buffer of the payload's length.
CopyChain ==
    /\ LET r == ChainCopyToSlice(ChainFile(ch_in.ptrs), InPageBytes(ch_in.in_page),
                                 ch_in.next_page, 0, ch_in.length)
       IN  ch_out' = [op |-> "chain", status |-> r.status, buf |-> r.buf]
    /\ UNCHANGED ch_in

\* btree/payload.rs: the payload is copied into a buffer of its length.
CopyPayload ==
    /\ LET r == PayloadCopyToSlice(InPageBytes(ch_in.in_page), ch_in.next_page,
                                   ch_in.length)
       IN  ch_out' = [op |-> "payload", status |-> r.status, buf |-> r.buf]
    /\ UNCHANGED ch_in

ChainNext ==
    \/ CopyChain /\ UNCHANGED OutsideChain
    \/ CopyPayload /\ UNCHANGED OutsideChain

(***************************************************************************)
(* Records                                                                 *)
(***************************************************************************)
\* a | b on an i64.
BitOr(a, b) == [k \in 1..64 |-> IF a[k] = 1 \/ b[k] = 1 THEN 1 ELSE 0]

\* i64_from_bytes: bytes.iter().fold(0i64, |n, b| (n << 8) | *b as i64).
RECURSIVE FoldBytes(_, _)
FoldBytes(bytes, n) ==
    IF bytes = <<>> THEN n
    ELSE FoldBytes(Tail(bytes), SubSeq(BitOr(Shl(n, 8), U8AsI64(Head(bytes))), 1, 64))

I64FromBytes(bytes) == FoldBytes(bytes, Zeros(64))

\* `n as i8`, `n as i16`, `n as i32` widened back to an i64: the low `width`
\* bits, sign-extended.
AsSigned(n, width) ==
    [k \in 1..64 |-> IF k <= 64 - width THEN n[64 - width + 1] ELSE n[k]]

\* ux::i24::new and ux::i48::new assert MIN <= value <= MAX: the value is its
\* low `width` bits sign-extended.
UxRepresentable(n, width) == \A k \in 1..(64 - width) : n[k] = n[64 - width + 1]

\* The value of a small non-negative i64 as a number; the varints of a record
\* header modelled here stay below 2^31.
RECURSIVE BitsValue(_, _)
BitsValue(n, k) == IF k = 0 THEN 0 ELSE n[k] + 2 * BitsValue(n, k - 1)
I64AsUsize(n) == BitsValue(SubSeq(n, 34, 64), 31)

\* String::from_utf8(buf).unwrap() on bodies without UTF-8 lead bytes: every
\* byte is ASCII, or the unwrap panics.
IsUtf8(bytes) == \A j \in 1..Len(bytes) : bytes[j] < 128

\* A field, RecordType: its variant, the integer it holds widened to an i64
\* (the bits of an F64), and the bytes of a blob or string.
RecordField(tag, int, bytes) == [variant |-> tag, int |-> int, bytes |-> bytes]

\* The match on the serial type in Record::from_buf: the field, the body bytes
\* it takes, and whether it panics (take_bytes past the end of the body, a
\* value ux cannot hold, invalid UTF-8, unreachable!()).
FieldPanic == [status |-> "panic", field |-> RecordField("none", <<>>, <<>>), taken |-> 0]

IntField(tag, body, n, width) ==
    IF Len(body) < n THEN FieldPanic
    ELSE [status |-> "ok", taken |-> n,
          field |-> RecordField(tag, AsSigned(I64FromBytes(SubSeq(body, 1, n)), width), <<>>)]

UxField(tag, body, n, width) ==
    IF Len(body) < n THEN FieldPanic
    ELSE LET v == I64FromBytes(SubSeq(body, 1, n))
         IN  IF UxRepresentable(v, width)
             THEN [status |-> "ok", taken |-> n, field |-> RecordField(tag, v, <<>>)]
             ELSE FieldPanic

BytesField(tag, body, length) ==
    IF Len(body) < length THEN FieldPanic
    ELSE IF tag = "String" /\ ~IsUtf8(SubSeq(body, 1, length)) THEN FieldPanic
    ELSE [status |-> "ok", taken |-> length,
          field |-> RecordField(tag, <<>>, SubSeq(body, 1, length))]

NoBodyField(tag) ==
    [status |-> "ok", taken |-> 0, field |-> RecordField(tag, <<>>, <<>>)]

ReadField(serial_type, body) ==
    LET n == I64AsUsize(serial_type)
    IN  IF serial_type[1] = 1 THEN FieldPanic
        ELSE IF n = 0 THEN NoBodyField("Null")
        ELSE IF n = 1 THEN IntField("I8", body, 1, 8)
        ELSE IF n = 2 THEN IntField("I16", body, 2, 16)
        ELSE IF n = 3 THEN UxField("I24", body, 3, 24)
        ELSE IF n = 4 THEN IntField("I32", body, 4, 32)
        ELSE IF n = 5 THEN UxField("I48", body, 6, 48)
        ELSE IF n = 6 THEN IntField("I64", body, 8, 64)
        ELSE IF n = 7 THEN IntField("F64", body, 8, 64)
        ELSE IF n = 8 THEN NoBodyField("Zero")
        ELSE IF n = 9 THEN NoBodyField("One")
        ELSE IF n \in {10, 11} THEN NoBodyField("Reserved")
        ELSE IF n % 2 = 0 THEN BytesField("Blob", body, (n - 12) \div 2)
        ELSE BytesField("String", body, (n - 13) \div 2)

\* The iterator of Record::from_buf, collected: one field per varint of the
\* header; at the end of the header assert!(body.is_empty()).
RECURSIVE ReadFields(_, _, _)
ReadFields(header, body, fields) ==
    IF header = <<>>
    THEN IF body = <<>> THEN [status |-> "ok", fields |-> fields]
         ELSE [status |-> "panic", fields |-> <<>>]
    ELSE LET serial_type == FromBuffer(header)
             f == ReadField(serial_type.value, body)
         IN  IF f.status = "panic" THEN [status |-> "panic", fields |-> <<>>]
             ELSE ReadFields(serial_type.rest,
                             SubSeq(body, f.taken + 1, Len(body)),
                             Append(fields, f.field))

\* Record::from_buf: the header length, the header and the body.  The slices
\* panic when the header length is less than its own width or more than the
\* buffer.
RecordFromBuf(buf) ==
    LET header_length == FromBuffer(buf)
        remaining_header == I64AsUsize(header_length.value) - header_length.consumed
        rest == header_length.rest
    IN  IF header_length.value[1] = 1 \/ remaining_header < 0
           \/ remaining_header > Len(rest)
        THEN [status |-> "panic", fields |-> <<>>]
        ELSE ReadFields(SubSeq(rest, 1, remaining_header),
                        SubSeq(rest, remaining_header + 1, Len(rest)), <<>>)

\* RecordType::integer: Some(i) for I8 .. I64, None for every other variant.
Integer(field) ==
    IF field.variant \in {"I8", "I16", "I24", "I32", "I48", "I64"} THEN <<field.int>>
    ELSE <<>>

\* The records read: fields of the serial types below, each body either
\* counting up from a byte that names the field (top bit clear) or counting
\* down from 0xFF less that byte (top bit set); `delta` drops the last body
\* byte or adds one.
SerialTypes == (0..15) \cup {17, 18}
BodySizeOf(t) ==
    IF t \in {0, 8, 9, 10, 11} THEN 0
    ELSE IF t <= 4 THEN t
    ELSE IF t = 5 THEN 6
    ELSE IF t \in {6, 7} THEN 8
    ELSE IF t % 2 = 0 THEN (t - 12) \div 2 ELSE (t - 13) \div 2

BodyOf(i, t, pattern) ==
    [j \in 1..BodySizeOf(t) |->
        IF pattern = "up" THEN 16 * i + j ELSE 255 - (16 * i + j)]

RECURSIVE BodiesOf(_, _, _)
BodiesOf(types, patterns, i) ==
    IF i > Len(types) THEN <<>>
    ELSE BodyOf(i, types[i], patterns[i]) \o BodiesOf(types, patterns, i + 1)

RecordBytes(types, patterns, delta) ==
    LET body == BodiesOf(types, patterns, 1)
    IN  <<1 + Len(types)>> \o types
        \o (IF delta = 1 THEN Append(body, 0)
            ELSE IF delta = -1 /\ body # <<>> THEN SubSeq(body, 1, Len(body) - 1)
            ELSE body)

NoRecordInput == [types |-> <<>>, patterns |-> <<>>, delta |-> 2]
NoRecord == [status |-> "none", fields |-> <<>>]
NoInteger == [index |-> 0, result |-> <<>>]

RecordIdle ==
    /\ rec_in = NoRecordInput
    /\ rec_buf = <<>>
    /\ rec_out = NoRecord
    /\ rec_int = NoInteger

RecordInit ==
    /\ \E n \in 0..MaxFields :
          \E types \in [1..n -> SerialTypes], patterns \in [1..n -> {"up", "down"}],
             delta \in {-1, 0, 1} :
             rec_in = [types |-> types, patterns |-> patterns, delta |-> delta]
    /\ rec_buf = RecordBytes(rec_in.types, rec_in.patterns, rec_in.delta)
    /\ rec_out = NoRecord
    /\ rec_int = NoInteger

\* Record::from_buf(id, buf).
ReadRecord ==
    /\ rec_out = NoRecord
    /\ rec_out' = RecordFromBuf(rec_buf)
    /\ UNCHANGED <<rec_in, rec_buf, rec_int>>

\* field.integer() on the i-th field of the record read.
FieldInteger(i) ==
    /\ rec_out.status = "ok"
    /\ i \in 1..Len(rec_out.fields)
    /\ rec_int' = [index |-> i, result |-> Integer(rec_out.fields[i])]
    /\ UNCHANGED <<rec_in, rec_buf, rec_out>>

RecordNext ==
    \/ ReadRecord /\ UNCHANGED OutsideRecord
    \/ (\E i \in 1..MaxFields : FieldInteger(i)) /\ UNCHANGED OutsideRecord

(***************************************************************************)
(* Seek offsets                                                            *)
(***************************************************************************)
\* A u32 is four bytes and a u64 eight bytes, most significant first.
\* a * b on a u32 `b` with a factor `a` of at most 2^16: the low four bytes of
\* the product and what is carried out of them.
RECURSIVE MulLoop(_, _, _, _, _)
MulLoop(a, b, i, carry, low) ==
    IF i = 0 THEN [low |-> low, carry |-> carry]
    ELSE LET p == a * b[i] + carry
         IN  MulLoop(a, b, i - 1, p \div 256, <<p % 256>> \o low)

\* `as u64` on a u32.
U32AsU64(n) == <<0, 0, 0, 0>> \o n

OffsetPanic == [status |-> "panic", offset |-> <<>>]

\* u32 * u32: a product of more than 32 bits panics in a build with overflow
\* checks and wraps in a build without.
U32Mul(a, b, overflow_checks) ==
    LET r == MulLoop(a, b, 4, 0, <<>>)
    IN  IF r.carry # 0 /\ overflow_checks THEN OffsetPanic
        ELSE [status |-> "ok", offset |-> U32AsU64(r.low)]

\* page_id - 1 on a u32: below zero it panics with overflow checks and wraps
\* without.
RECURSIVE SubLoop(_, _)
SubLoop(n, i) ==
    IF i = 0 THEN n
    ELSE IF n[i] > 0 THEN [n EXCEPT ![i] = n[i] - 1]
    ELSE SubLoop([n EXCEPT ![i] = 255], i - 1)

\* SqliteHeader::page_size of disk/header.rs: the field value 1 is 65536.
DiskHeaderPageSize(raw) == IF raw = 1 THEN 65536 ELSE raw

\* ctx/pager.rs get_page: (self.0.page_size as u32 * (page_id - 1)) as u64,
\* page_size being header.page_size() as usize.
CtxPagerOffset(raw, page_id, overflow_checks) ==
    IF page_id = <<0, 0, 0, 0>> /\ overflow_checks THEN OffsetPanic
    ELSE U32Mul(DiskHeaderPageSize(raw), SubLoop(page_id, 4), overflow_checks)

\* pager.rs and v2/pager.rs get_page: (self.page_size as u32 * page_id) as
\* u64, page_size being the u16 field of the header as it is stored.
U16PagerOffset(raw, page_id, overflow_checks) ==
    U32Mul(raw, page_id, overflow_checks)

\* The page-size field of a valid header, and the page ids asked for.
RawPageSizes == {1} \cup {2 ^ e : e \in 9..15}
OffsetIdBytes == {0, 1, 128, 255}
OffsetPageIds == [1..4 -> OffsetIdBytes]

NoOffsetInput == [raw |-> 0, page_id |-> <<>>]
NoOffset == [pager |-> "none", status |-> "none", offset |-> <<>>]

OffsetIdle ==
    /\ off_in = NoOffsetInput
    /\ off_out = NoOffset

OffsetInit ==
    /\ off_in \in [raw : RawPageSizes, page_id : OffsetPageIds]
    /\ off_out = NoOffset

\* ctx/pager.rs Pager::get_page on a cache miss.
CtxGetPage ==
    /\ off_out = NoOffset
    /\ \E overflow_checks \in BOOLEAN :
          LET r == CtxPagerOffset(off_in.raw, off_in.page_id, overflow_checks)
          IN  off_out' = [pager |-> "ctx", status |-> r.status, offset |-> r.offset]
    /\ UNCHANGED off_in

\* pager.rs Pager::get_page on a cache miss.
PagerGetPage ==
    /\ off_out = NoOffset
    /\ \E overflow_checks \in BOOLEAN :
          LET r == U16PagerOffset(off_in.raw, off_in.page_id, overflow_checks)
          IN  off_out' = [pager |-> "pager", status |-> r.status, offset |-> r.offset]
    /\ UNCHANGED off_in

\* v2/pager.rs Pager::get_page.
V2GetPage ==
    /\ off_out = NoOffset
    /\ \E overflow_checks \in BOOLEAN :
          LET r == U16PagerOffset(off_in.raw, off_in.page_id, overflow_checks)
          IN  off_out' = [pager |-> "v2", status |-> r.status, offset |-> r.offset]
    /\ UNCHANGED off_in

OffsetNext ==
    \/ CtxGetPage /\ UNCHANGED OutsideOffset
    \/ PagerGetPage /\ UNCHANGED OutsideOffset
    \/ V2GetPage /\ UNCHANGED OutsideOffset

(***************************************************************************)
(* Statement parser                                                        *)
(***************************************************************************)
\* A text is a sequence of characters, each a string of one character.
LowerCaseLetters ==
    {"a", "b", "c", "d", "e", "f", "g", "h", "i", "j", "k", "l", "m",
     "n", "o", "p", "q", "r", "s", "t", "u", "v", "w", "x", "y", "z"}
UpperCaseLetters ==
    {"A", "B", "C", "D", "E", "F", "G", "H", "I", "J", "K", "L", "M",
     "N", "O", "P", "Q", "R", "S", "T", "U", "V", "W", "X", "Y", "Z"}
DigitCharacters == {"0", "1", "2", "3", "4", "5", "6", "7", "8", "9"}
WhitespaceCharacters == {" ", "\t", "\n", "\r"}

\* 'a'..='z' | 'A'..='Z' | '_'
IsIdentStart(c) == c \in LowerCaseLetters \cup UpperCaseLetters \cup {"_"}

\* c.is_alphanumeric() || *c == '_'
IsIdentContinue(c) ==
    c \in LowerCaseLetters \cup UpperCaseLetters \cup DigitCharacters \cup {"_"}

\* util::take_while: the characters taken while the test holds; the first
\* that fails it stays in the iterator.
RECURSIVE TakeWhile(_)
TakeWhile(chars) ==
    IF chars # <<>> /\ IsIdentContinue(Head(chars))
    THEN <<Head(chars)>> \o TakeWhile(Tail(chars))
    ELSE <<>>

\* CommonToken::Ident(Ident(text)) and CommonToken::Punct(punct).
IdentToken(text) == [kind |-> "Ident", text |-> text]
PunctToken(punct) == [kind |-> "Punct", text |-> <<punct>>]

\* CommonToken::from_char(c, chars): the outcome, and what is left of chars.
FromChar(c, chars) ==
    IF IsIdentStart(c)
    THEN LET more == TakeWhile(chars)
         IN  [outcome |-> "Token", token |-> IdentToken(<<c>> \o more),
              rest |-> SubSeq(chars, Len(more) + 1, Len(chars))]
    ELSE IF c = "*"
    THEN [outcome |-> "Token", token |-> PunctToken("Asterisk"), rest |-> chars]
    ELSE IF c = ","
    THEN [outcome |-> "Token", token |-> PunctToken("Comma"), rest |-> chars]
    ELSE IF c = ";"
    THEN [outcome |-> "Token", token |-> PunctToken("Semicolon"), rest |-> chars]
    ELSE IF c \in WhitespaceCharacters
    THEN [outcome |-> "Skip", token |-> PunctToken("none"), rest |-> chars]
    ELSE [outcome |-> "Unexpected", token |-> PunctToken("none"), rest |-> chars]

\* TokenBuffer::new(source): the tokens of the source, or the error of the
\* first unexpected character.
RECURSIVE TokenBufferNew(_, _)
TokenBufferNew(chars, buffer) ==
    IF chars = <<>> THEN [status |-> "ok", buffer |-> buffer]
    ELSE LET r == FromChar(Head(chars), Tail(chars))
         IN  IF r.outcome = "Unexpected" THEN [status |-> "err", buffer |-> <<>>]
             ELSE IF r.outcome = "Skip" THEN TokenBufferNew(r.rest, buffer)
             ELSE TokenBufferNew(r.rest, Append(buffer, r.token))

\* A parse result: Ok(value) or Err, and the cursor of the parser after it.
ParseOk(value, offset) == [ok |-> TRUE, value |-> value, offset |-> offset]
ParseErr(offset) == [ok |-> FALSE, value |-> PunctToken("none"), offset |-> offset]

\* Cursor::eof and Cursor::entry: a cursor is an offset into the buffer.
Eof(buffer, offset) == offset >= Len(buffer)

\* The Ok branch of FullBufferParser::step: the cursor is set.
StepAlwaysSets(offset, ok, cursor) == cursor

\* FullBufferParser::step: `function(..)?` returns the error before
\* self.cursor.set(cursor).
StepCursor(offset, ok, cursor) == IF ok THEN cursor ELSE offset

\* impl Parse<T> for T: parser.step(|cursor| cursor.token().ok_or_else(..)).
ParseBase(buffer, offset) ==
    IF Eof(buffer, offset) THEN ParseErr(StepCursor(offset, FALSE, offset))
    ELSE ParseOk(buffer[offset + 1], StepCursor(offset, TRUE, offset + 1))

\* Parse for Ident and for Punct: the base token is parsed, then matched.
ParseRepr(buffer, offset, kind) ==
    LET r == ParseBase(buffer, offset)
    IN  IF r.ok /\ r.value.kind # kind THEN ParseErr(r.offset) ELSE r

\* PartialEq<S> for Ident (self.0 == other.as_ref()) and for Punct.
ReprEq(token, text) ==
    IF token.kind = "Ident" THEN token.text = text
    ELSE (CASE token.text = <<"Asterisk">> -> <<"*">>
            [] token.text = <<"Comma">> -> <<",">>
            [] token.text = <<"Semicolon">> -> <<";">>
            [] OTHER -> <<>>) = text

\* define_tokens!: Parse for a token of representation `kind` and text TOKEN.
ParseToken(buffer, offset, kind, text) ==
    LET repr == ParseRepr(buffer, offset, kind)
    IN  IF repr.ok /\ ~ReprEq(repr.value, text) THEN ParseErr(repr.offset) ELSE repr

\* define_tokens!: Token::peek, and Token::peek for Ident and Punct: the
\* cursor has a token and from_base gives the representation.
PeekRepr(buffer, offset, kind) ==
    ~Eof(buffer, offset) /\ buffer[offset + 1].kind = kind

\* ResultColumn::parse.
ParseResultColumn(buffer, offset) ==
    IF PeekRepr(buffer, offset, "Punct")
    THEN ParseToken(buffer, offset, "Punct", <<"*">>)
    ELSE IF PeekRepr(buffer, offset, "Ident")
    THEN ParseRepr(buffer, offset, "Ident")
    ELSE ParseErr(offset)

\* Punctuated::parse_separated_non_empty_with for ResultColumn and Token![,]:
\* the values parsed so far are `values`.
RECURSIVE ParseSeparatedNonEmpty(_, _, _)
ParseSeparatedNonEmpty(buffer, offset, values) ==
    LET value == ParseResultColumn(buffer, offset)
    IN  IF ~value.ok THEN [ok |-> FALSE, value |-> <<>>, offset |-> value.offset]
        ELSE IF ~PeekRepr(buffer, value.offset, "Punct")
        THEN [ok |-> TRUE, value |-> Append(values, value.value), offset |-> value.offset]
        ELSE LET punct == ParseToken(buffer, value.offset, "Punct", <<",">>)
             IN  IF ~punct.ok
                 THEN [ok |-> FALSE, value |-> <<>>, offset |-> punct.offset]
                 ELSE ParseSeparatedNonEmpty(buffer, punct.offset,
                                             Append(values, value.value))

KeywordSelect == <<"s", "e", "l", "e", "c", "t">>
KeywordFrom == <<"f", "r", "o", "m">>

NoStatement == [result_column |-> <<>>, table_name |-> <<>>]
QueryErr(offset) == [status |-> "err", statement |-> NoStatement, offset |-> offset]

\* QueryStatement::parse: select, the result columns, from, the table name
\* and the semicolon, each parsed where the one before it ended; the first
\* error is returned.
QuerySemicolon(result_column, table_name, semicolon) ==
    IF ~semicolon.ok THEN QueryErr(semicolon.offset)
    ELSE [status |-> "ok", offset |-> semicolon.offset,
          statement |-> [result_column |-> result_column.value,
                         table_name |-> table_name.value.text]]

QueryTableName(buffer, result_column, table_name) ==
    IF ~table_name.ok THEN QueryErr(table_name.offset)
    ELSE QuerySemicolon(result_column, table_name,
                        ParseToken(buffer, table_name.offset, "Punct", <<";">>))

QueryFrom(buffer, result_column, from) ==
    IF ~from.ok THEN QueryErr(from.offset)
    ELSE QueryTableName(buffer, result_column, ParseRepr(buffer, from.offset, "Ident"))

QueryResultColumn(buffer, result_column) ==
    IF ~result_column.ok THEN QueryErr(result_column.offset)
    ELSE QueryFrom(buffer, result_column,
                   ParseToken(buffer, result_column.offset, "Ident", KeywordFrom))

QuerySelect(buffer, select) ==
    IF ~select.ok THEN QueryErr(select.offset)
    ELSE QueryResultColumn(buffer, ParseSeparatedNonEmpty(buffer, select.offset, <<>>))

ParseQueryStatement(buffer) ==
    QuerySelect(buffer, ParseToken(buffer, 0, "Ident", KeywordSelect))

\* lib_parse::parse_str::<QueryStatement>(command).
ParseStr(command, buffer) ==
    IF buffer.status # "ok" THEN QueryErr(0) ELSE ParseQueryStatement(buffer.buffer)

\* parse_command::<QueryStatement>: lib_parse::parse_str(command).unwrap().
Unwrap(parsed) ==
    IF parsed.status # "ok" THEN [parsed EXCEPT !.status = "panic"] ELSE parsed

ParseCommandQuery(command) == Unwrap(ParseStr(command, TokenBufferNew(command, <<>>)))

\* LeftParenthesis::parse and RightParenthesis::parse: a Punct is parsed, then
\* matched against Punct::LeftSmooth or Punct::RightSmooth.
ParseDelimiter(buffer, offset, punct) ==
    LET r == ParseRepr(buffer, offset, "Punct")
    IN  IF r.ok /\ r.value.text # <<punct>> THEN ParseErr(r.offset) ELSE r

\* LeftParenthesis::peek and RightParenthesis::peek.
PeekDelimiter(buffer, cursor, punct) ==
    PeekRepr(buffer, cursor, "Punct") /\ buffer[cursor + 1].text = <<punct>>

\* The loop of FullBufferParser::group that scans for the closing delimiter.
\* Past the end of the buffer neither peek holds again and the loop has no
\* other exit: it advances the cursor without end.
RECURSIVE ScanClosing(_, _, _, _)
ScanClosing(buffer, cursor, offset, depth) ==
    IF Eof(buffer, cursor) THEN [status |-> "diverges", offset |-> offset, cursor |-> cursor]
    ELSE IF PeekDelimiter(buffer, cursor, "RightSmooth") /\ depth = 0
    THEN [status |-> "ok", offset |-> offset, cursor |-> cursor]
    ELSE ScanClosing(buffer, cursor + 1, offset + 1,
                     depth - (IF PeekDelimiter(buffer, cursor, "RightSmooth") THEN 1 ELSE 0)
                           + (IF PeekDelimiter(buffer, cursor, "LeftSmooth") THEN 1 ELSE 0))

\* Cursor::split_cursor(offset): the tokens of the inner cursor, the first
\* `offset` tokens from the cursor.
SplitCursor(buffer, cursor, offset) == SubSeq(buffer, cursor + 1, cursor + offset)

\* FullBufferParser::group::<Parenthesis>: the status, the parser's cursor
\* after the call and the tokens of the inner parser.  The opening delimiter
\* is parsed, the scan is made in a step, the closing delimiter is parsed.
GroupErr(status, offset) == [status |-> status, offset |-> offset, inner |-> <<>>]

GroupClosing(buffer, cursor, offset, closing) ==
    IF ~closing.ok THEN GroupErr("err", closing.offset)
    ELSE [status |-> "ok", offset |-> closing.offset,
          inner |-> SplitCursor(buffer, cursor, offset)]

GroupScan(buffer, cursor, scan) ==
    IF scan.status = "diverges" THEN GroupErr("diverges", cursor)
    ELSE GroupClosing(buffer, cursor, scan.offset,
                      ParseDelimiter(buffer, StepCursor(cursor, TRUE, scan.cursor),
                                     "RightSmooth"))

GroupOpening(buffer, opening) ==
    IF ~opening.ok THEN GroupErr("err", opening.offset)
    ELSE GroupScan(buffer, opening.offset, ScanClosing(buffer, opening.offset, 0, 0))

GroupParenthesis(buffer, offset) ==
    GroupOpening(buffer, ParseDelimiter(buffer, offset, "LeftSmooth"))

\* The statements parsed: the keywords in lower and in upper case, result
\* columns with and without the comma, with and without the semicolon.
SelectWords == {<<"s", "e", "l", "e", "c", "t">>, <<"S", "E", "L", "E", "C", "T">>}
ColumnTexts == {<<"*">>, <<"c", "1", ",", " ", "c", "2">>, <<"c", "1", " ", "c", "2">>, <<",">>}
FromWords == {<<"f", "r", "o", "m">>, <<"F", "R", "O", "M">>}
TableNames == {<<"u", "s", "e", "r", "s">>, <<"t">>}
Terminators == {<<";">>, <<>>, <<"!">>}
Statements ==
    {s \o <<" ">> \o c \o <<" ">> \o f \o <<" ">> \o t \o e :
        s \in SelectWords, c \in ColumnTexts, f \in FromWords, t \in TableNames,
        e \in Terminators}

\* The token buffers given to step and group: parentheses and identifiers.
DelimiterTokens == {PunctToken("LeftSmooth"), PunctToken("RightSmooth"), IdentToken(<<"x">>)}
DelimiterBuffers == UNION {[1..n -> DelimiterTokens] : n \in 0..MaxTokens}

NoParse ==
    [op |-> "none", status |-> "none", before |-> 0, cursor |-> 0,
     statement |-> NoStatement, inner |-> <<>>]

ParserIdle ==
    /\ pr_src = <<>>
    /\ pr_buf = <<>>
    /\ pr_pos = 0
    /\ pr_out = NoParse

ParserInit ==
    /\ \/ pr_src \in Statements /\ pr_buf = TokenBufferNew(pr_src, <<>>).buffer
       \/ pr_src = <<>> /\ pr_buf \in DelimiterBuffers
    /\ pr_pos = 0
    /\ pr_out = NoParse

Returned == pr_out.status \notin {"diverges", "panic"}

\* parse_command::<QueryStatement>(command).
ParseCommand ==
    /\ pr_src # <<>>
    /\ pr_out = NoParse
    /\ LET r == ParseCommandQuery(pr_src)
       IN  /\ pr_pos' = r.offset
           /\ pr_out' = [NoParse EXCEPT !.op = "parse_command", !.status = r.status,
                                        !.statement = r.statement]
    /\ UNCHANGED <<pr_src, pr_buf>>

\* parser.step(function): the callback returns Ok((value, cursor)) or Err;
\* `cursor` is the cursor the callback has advanced to.
Step(ok, cursor) ==
    /\ Returned
    /\ cursor >= pr_pos
    /\ pr_pos' = StepCursor(pr_pos, ok, cursor)
    /\ pr_out' = [NoParse EXCEPT !.op = "step", !.status = IF ok THEN "ok" ELSE "err",
                                 !.before = pr_pos, !.cursor = cursor]
    /\ UNCHANGED <<pr_src, pr_buf>>

\* parser.group::<Parenthesis>().
Group ==
    /\ Returned
    /\ LET r == GroupParenthesis(pr_buf, pr_pos)
       IN  /\ pr_pos' = r.offset
           /\ pr_out' = [NoParse EXCEPT !.op = "group", !.status = r.status,
                                        !.before = pr_pos, !.inner = r.inner]
    /\ UNCHANGED <<pr_src, pr_buf>>

ParserNext ==
    \/ ParseCommand /\ UNCHANGED OutsideParser
    \/ (\E ok \in BOOLEAN, cursor \in 0..(MaxTokens + 1) : Step(ok, cursor))
          /\ UNCHANGED OutsideParser
    \/ Group /\ UNCHANGED OutsideParser

(***************************************************************************)
(* Specifications                                                          *)
(***************************************************************************)
TraverseSpecInit == TraverseInit /\ PagerIdle /\ FlagIdle /\ CellIdle /\ HeaderIdle /\ PageSizeIdle /\ VarIntIdle /\ PayloadIdle /\ ChainIdle /\ RecordIdle /\ OffsetIdle /\ ParserIdle

TraverseSpec == TraverseSpecInit /\ [][TraverseNext]_vars

\* The caller keeps pulling: a closure call that can be made is made.
TraverseFairSpec == TraverseSpec /\ WF_vars(TraverseNext)

PagerSpecInit == PagerInit /\ TraverseIdle /\ FlagIdle /\ CellIdle /\ HeaderIdle /\ PageSizeIdle /\ VarIntIdle /\ PayloadIdle /\ ChainIdle /\ RecordIdle /\ OffsetIdle /\ ParserIdle

PagerSpec == PagerSpecInit /\ [][PagerNext]_vars

FlagSpecInit == FlagInit /\ TraverseIdle /\ PagerIdle /\ CellIdle /\ HeaderIdle /\ PageSizeIdle /\ VarIntIdle /\ PayloadIdle /\ ChainIdle /\ RecordIdle /\ OffsetIdle /\ ParserIdle

FlagSpec == FlagSpecInit /\ [][FlagNext]_vars

CellSpecInit == CellInit /\ TraverseIdle /\ PagerIdle /\ FlagIdle /\ HeaderIdle /\ PageSizeIdle /\ VarIntIdle /\ PayloadIdle /\ ChainIdle /\ RecordIdle /\ OffsetIdle /\ ParserIdle

CellSpec == CellSpecInit /\ [][CellNext]_vars

HeaderSpecInit == HeaderInit /\ PagerIdle /\ FlagIdle /\ CellIdle /\ TraverseIdle /\ PageSizeIdle /\ VarIntIdle /\ PayloadIdle /\ ChainIdle /\ RecordIdle /\ OffsetIdle /\ ParserIdle

HeaderSpec == HeaderSpecInit /\ [][HeaderNext]_vars

PageSizeSpecInit == PageSizeInit /\ PagerIdle /\ FlagIdle /\ CellIdle /\ HeaderIdle /\ TraverseIdle /\ VarIntIdle /\ PayloadIdle /\ ChainIdle /\ RecordIdle /\ OffsetIdle /\ ParserIdle

PageSizeSpec == PageSizeSpecInit /\ [][PageSizeNext]_vars

VarIntSpecInit == VarIntInit /\ PagerIdle /\ FlagIdle /\ CellIdle /\ HeaderIdle /\ PageSizeIdle /\ TraverseIdle /\ PayloadIdle /\ ChainIdle /\ RecordIdle /\ OffsetIdle /\ ParserIdle

VarIntSpec == VarIntSpecInit /\ [][VarIntNext]_vars

PayloadSpecInit == PayloadInit /\ PagerIdle /\ FlagIdle /\ CellIdle /\ HeaderIdle /\ PageSizeIdle /\ VarIntIdle /\ TraverseIdle /\ ChainIdle /\ RecordIdle /\ OffsetIdle /\ ParserIdle

PayloadSpec == PayloadSpecInit /\ [][PayloadNext]_vars

ThresholdSpecInit == ThresholdInit /\ PagerIdle /\ FlagIdle /\ CellIdle /\ HeaderIdle /\ PageSizeIdle /\ VarIntIdle /\ TraverseIdle /\ ChainIdle /\ RecordIdle /\ OffsetIdle /\ ParserIdle

ThresholdSpec == ThresholdSpecInit /\ [][PayloadNext]_vars

ChainSpecInit == ChainInit /\ PagerIdle /\ FlagIdle /\ CellIdle /\ HeaderIdle /\ PageSizeIdle /\ VarIntIdle /\ PayloadIdle /\ TraverseIdle /\ RecordIdle /\ OffsetIdle /\ ParserIdle

ChainSpec == ChainSpecInit /\ [][ChainNext]_vars

RecordSpecInit == RecordInit /\ PagerIdle /\ FlagIdle /\ CellIdle /\ HeaderIdle /\ PageSizeIdle /\ VarIntIdle /\ PayloadIdle /\ ChainIdle /\ TraverseIdle /\ OffsetIdle /\ ParserIdle

RecordSpec == RecordSpecInit /\ [][RecordNext]_vars

OffsetSpecInit == OffsetInit /\ PagerIdle /\ FlagIdle /\ CellIdle /\ HeaderIdle /\ PageSizeIdle /\ VarIntIdle /\ PayloadIdle /\ ChainIdle /\ RecordIdle /\ TraverseIdle /\ ParserIdle

OffsetSpec == OffsetSpecInit /\ [][OffsetNext]_vars

ParserSpecInit == ParserInit /\ PagerIdle /\ FlagIdle /\ CellIdle /\ HeaderIdle /\ PageSizeIdle /\ VarIntIdle /\ PayloadIdle /\ ChainIdle /\ RecordIdle /\ OffsetIdle /\ TraverseIdle

ParserSpec == ParserSpecInit /\ [][ParserNext]_vars

(***************************************************************************)
(* Claims about the traversal                                              *)
(***************************************************************************)
\* The leaf cells below page p in left-to-right depth-first order: the cells of
\* a leaf in cell-pointer-array order, the children of an interior page in the
\* order left pointers then right pointer.  An interior page not expanded yet
\* has no children recorded and contributes nothing.
RECURSIVE LeafCells(_), CellsOfKids(_)
LeafCells(p) ==
    IF file[p].kind = "leaf"
    THEN [i \in 1..file[p].cell_count |-> <<p, i>>]
    ELSE CellsOfKids(file[p].children)
CellsOfKids(kids) ==
    IF kids = <<>> THEN <<>>
    ELSE LeafCells(Head(kids)) \o CellsOfKids(Tail(kids))

IsPrefix(s, t) == Len(s) <= Len(t) /\ s = SubSeq(t, 1, Len(s))

\* Every page is the child of at most one pointer: the pages form a tree.
IsTree ==
    \A p, q \in DOMAIN file :
        \A i \in 1..Len(file[p].children), j \in 1..Len(file[q].children) :
            file[p].children[i] = file[q].children[j] => (p = q /\ i = j)

Occurrences(s, x) == Cardinality({k \in 1..Len(s) : s[k] = x})

\* C1: the cells pulled from traverse(root) are the leaf cells in left-to-right
\* depth-first order: what has been yielded is always a prefix of that order,
\* it is the whole of it when the traversal ends, and in a tree every leaf
\* cell is then yielded exactly once.
C1_TraverseInOrder ==
    /\ IsPrefix(yielded, LeafCells(RootPage))
    /\ last = "end" =>
          /\ yielded = LeafCells(RootPage)
          /\ IsTree =>
                \A p \in DOMAIN file :
                    file[p].kind = "leaf" =>
                        \A i \in 1..file[p].cell_count :
                            Occurrences(yielded, <<p, i>>) = 1

\* C1 witness: a finished traversal of a tree whose root has two children, the
\* left one an interior page, with cells yielded from leaves at both depths.
C1_Witness ==
    /\ last = "end"
    /\ IsTree
    /\ file[RootPage].kind = "interior"
    /\ Len(file[RootPage].children) = 2
    /\ file[file[RootPage].children[1]].kind = "interior"
    /\ file[file[RootPage].children[2]].kind = "leaf"
    /\ file[file[RootPage].children[2]].cell_count = 2
    /\ Len(yielded) >= 3
    /\ yielded[1][1] # file[RootPage].children[2]

\* C2: on a B-tree in which no page reaches itself, pulling eventually returns
\* "no more cells" with the stack empty and no leaf iterator pending, and every
\* later pull returns "no more cells" too.
C2_TraverseTerminates ==
    <>[](last = "end" /\ stack = <<>> /\ leaf_iter = None)

\* C2 witness: the traversal has ended after visiting a leaf with zero cells,
\* and a later pull has been made.
C2_Witness ==
    /\ last = "end"
    /\ end_pulls >= 2
    /\ \E p \in popped : file[p].kind = "leaf" /\ file[p].cell_count = 0
    /\ \E p \in popped : file[p].kind = "interior"

\* C3: when a cell is yielded, the only pages requested from the pager are the
\* pages the traversal has had to visit to produce the cells so far.
C3_NoPrefetch ==
    last = "cell" => fetched \subseteq popped

(***************************************************************************)
(* Claims about the pagers                                                 *)
(***************************************************************************)
\* The bytes a buffer holds: it was filled from the source at offset buf.at.
Contents(buf) == [i \in 1..buf.len |-> SourceByte(buf.at + i - 1)]

\* C4: every successful get(p), p >= 1, returns a buffer whose raw length is
\* exactly page_size, with the same bytes as the buffer the first successful
\* get(p) returned (pagers of memory/pager.rs, pager/mod.rs and ctx/pager.rs).
C4_PageExact ==
    (/\ variant \in {"memory", "pager", "ctx"}
     /\ result.op = "get"
     /\ result.status = "ok"
     /\ result.page >= 1)
    => /\ result.buf.len = page_size
       /\ Contents(result.buf) = Contents(served[result.page])

\* C4 witness: page 1 is returned a second time by the pager that tags it with
\* the header offset, after another page has been returned.
C4_Witness ==
    /\ variant = "ctx"
    /\ result.op = "get"
    /\ result.status = "ok"
    /\ result.page = 1
    /\ result.served_before
    /\ result.buf.offset = SQLITE_HEADER_SIZE
    /\ Cardinality(DOMAIN served) >= 2

\* C5: once get(p) has succeeded, a later get(p) with no page-size update in
\* between succeeds without a seek and without a read: the position of the
\* source is what it was before the call.
C5_CacheHit ==
    (result.op = "get" /\ result.served_before)
    => /\ result.status = "ok"
       /\ result.seek = -1
       /\ result.read = 0
       /\ src_pos = result.pos_before

\* C5 witness: a repeated get(p) served while the source stands where the
\* read of another page left it.
C5_Witness ==
    /\ result.op = "get"
    /\ result.served_before
    /\ Cardinality(DOMAIN served) >= 2
    /\ src_pos # result.buf.at + result.buf.len

\* C6: in the pagers whose page ids start at 1, a cache miss on get(p), p >= 1,
\* seeks to (p - 1) * page_size and reads exactly page_size bytes.
C6_SeekOffset ==
    (/\ variant \in {"memory", "pager", "ctx"}
     /\ result.op = "get"
     /\ result.page >= 1
     /\ result.read > 0)
    => /\ result.seek = (result.page - 1) * page_size
       /\ result.read = page_size

\* C7: after the page size has been changed, every buffer a get returns has
\* the current page size as its length and was read at the offset computed
\* with the current page size.
C7_PageSizeInvalidates ==
    (result.op = "get" /\ result.status = "ok")
    => /\ result.buf.len = page_size
       /\ result.buf.at = GetOffset(variant, result.page, page_size)

C9_CellAtPointer ==
    cell_out.code # "none" => cell_out.start = cell_ptrs[cell_out.cell + 1]

\* The flag the file format assigns to a byte: 0x0d (leaf, table),
\* 0x05 (interior, table), 0x0a (leaf, index), 0x02 (interior, index).
FormatFlag(b) ==
    CASE b = 13 -> [kind |-> "leaf", type |-> "table"]
      [] b = 5  -> [kind |-> "interior", type |-> "table"]
      [] b = 10 -> [kind |-> "leaf", type |-> "index"]
      [] b = 2  -> [kind |-> "interior", type |-> "index"]
      [] OTHER  -> BadFlag

\* C10: decoding a byte b of 0..255 as a page flag yields (leaf, table) for
\* 0x0d, (interior, table) for 0x05, (leaf, index) for 0x0a, (interior, index)
\* for 0x02, and fails for every other value.
C10_FlagDecode ==
    flag_out.decoder # "none" => flag_out.flag = FormatFlag(flag_byte)

(***************************************************************************)
(* Claims about the file header                                            *)
(***************************************************************************)
\* The header of the open-and-decode scenario: magic, page size bytes 0x10
\* 0x00, payload fractions 64/32/32 and a zero reserved region.
ScenarioHeader(buf) ==
    /\ Len(buf) = 100
    /\ Field(buf, 0, 16) = HEADER_STRING
    /\ buf[17] = 16 /\ buf[18] = 0
    /\ buf[22] = 64 /\ buf[23] = 32 /\ buf[24] = 32
    /\ \A k \in 73..92 : buf[k] = 0

\* The enumerated fields of the header hold one of their values: the two file
\* format versions, the schema format and the text encoding.
EnumFieldsValid(buf) ==
    /\ buf[19] \in {1, 2}
    /\ buf[20] \in {1, 2}
    /\ U32Get(buf, 44) \in 1..4
    /\ U32Get(buf, 56) \in 1..3

\* C11 as stated: for every 100-byte header with the magic, page-size bytes
\* 0x10 0x00, fractions 64/32/32 and zero bytes 72..91, whatever the remaining
\* bytes are, SqliteHeader::read_from_buffer succeeds and page_size() is 4096.
C11_AnyRemainingBytes ==
    (hdr_out.reader = "disk" /\ ScenarioHeader(hdr_buf))
    => hdr_out.status = "ok" /\ hdr_out.page_size = 4096

\* C11 amended: for every such header whose file format versions (bytes 18,
\* 19) are 1 or 2, whose schema format (bytes 44..47) is 1..4 and whose text
\* encoding (bytes 56..59) is 1..3, whatever the remaining bytes are,
\* SqliteHeader::read_from_buffer succeeds and page_size() is 4096.
C11_ScenarioDecodes ==
    (hdr_out.reader = "disk" /\ ScenarioHeader(hdr_buf) /\ EnumFieldsValid(hdr_buf))
    => hdr_out.status = "ok" /\ hdr_out.page_size = 4096

\* C11 witness: such a header, with page-end padding and 255 in the bytes
\* that are not validated, has been read.
C11_Witness ==
    /\ hdr_out.reader = "disk"
    /\ ScenarioHeader(hdr_buf)
    /\ EnumFieldsValid(hdr_buf)
    /\ hdr_buf[21] = 8
    /\ hdr_buf[100] = 255
    /\ hdr_out.page_size = 4096

\* C12: the header reader returns a header only if all header invariants
\* hold: the magic, a valid page size, the payload fractions 64/32/32, a zero
\* reserved region and a text encoding of 1, 2 or 3.
C12_HeaderInvariants ==
    hdr_out.status = "ok"
    => /\ Field(hdr_buf, 0, 16) = HEADER_STRING
       /\ \/ U16Get(hdr_buf, 16) = 1
          \/ U16Get(hdr_buf, 16) \in {512, 1024, 2048, 4096, 8192, 16384, 32768}
       /\ hdr_buf[22] = 64 /\ hdr_buf[23] = 32 /\ hdr_buf[24] = 32
       /\ \A k \in 73..92 : hdr_buf[k] = 0
       /\ U32Get(hdr_buf, 56) \in {1, 2, 3}

\* The page sizes of the file format: the powers of two of 512..32768.
FormatPageSizes == {512, 1024, 2048, 4096, 8192, 16384, 32768}

\* C13: decoding a raw 16-bit page-size field r succeeds exactly when r = 1
\* or r is a power of two in 512..32768, yielding 65536 for 1 and r otherwise;
\* any other r fails, with the range error outside 512..32768 and with the
\* not-a-power-of-two error inside it.
C13_PageSizeDecode ==
    size_out.decoder # "none"
    => IF raw_size = 1 THEN size_out.status = "ok" /\ size_out.value = 65536
       ELSE IF raw_size \in FormatPageSizes
       THEN size_out.status = "ok" /\ size_out.value = raw_size
       ELSE IF raw_size < 512 \/ raw_size > 32768
       THEN size_out.status = "Range"
       ELSE size_out.status = "PowerOfTwo"

\* C13 witness: the sentinel 1 has been decoded by the structures decoder.
C13_Witness ==
    /\ size_out.decoder = "structures"
    /\ raw_size = 1
    /\ size_out.value = 65536

(***************************************************************************)
(* Claims about varints                                                    *)
(***************************************************************************)
\* The length of the varint at the front of b: the position of the first of
\* the first eight bytes whose high bit is clear, 9 when there is none.
VarIntLength(b) ==
    LET clear == {j \in 1..8 : j <= Len(b) /\ b[j] < 128}
    IN  IF clear = {} THEN 9 ELSE CHOOSE j \in clear : \A i \in clear : j <= i

\* The value of the varint of k bytes at the front of b, as 64 bits: the low
\* 7 bits of each of the first min(k, 8) bytes and, for k = 9, the 8 bits of
\* the ninth, in big-endian order, extended with zeros on the left.
VarIntValue(b, k) ==
    LET n == IF k = 9 THEN 64 ELSE 7 * k
    IN  [t \in 1..(64 - n) |-> 0]
        \o [t \in 1..n |->
              IF t <= 56
              THEN (b[((t - 1) \div 7) + 1] \div (2 ^ (6 - ((t - 1) % 7)))) % 2
              ELSE (b[9] \div (2 ^ (64 - t))) % 2]

\* C14: for every non-empty b, VarInt::from_buffer(b) consumes exactly
\* k = VarIntLength(b) bytes, returns the value VarIntValue(b, k) and returns
\* the suffix b[k..].
C14_FromBuffer ==
    (vi_out.op = "from_buffer" /\ vi_buf # <<>>)
    => LET k == VarIntLength(vi_buf)
       IN  /\ vi_out.consumed = k
           /\ k <= Len(vi_buf)
           /\ vi_out.value = VarIntValue(vi_buf, k)
           /\ vi_out.rest = SubSeq(vi_buf, k + 1, Len(vi_buf))

\* i64::MAX: a zero sign bit and 63 ones.
I64Max == <<0>> \o [k \in 1..63 |-> 1]

\* C15: decoding [0xFF, 0xFF, 0xFF, 0xFF, 0xFF, 0xFF, 0xFF, 0xFF, 0x7F]
\* yields i64::MAX and consumes 9 bytes.
C15_DecodesI64Max ==
    (/\ vi_out.op \in {"from_buffer", "from_bytes"}
     /\ vi_buf = <<255, 255, 255, 255, 255, 255, 255, 255, 127>>)
    => vi_out.value = I64Max /\ vi_out.consumed = 9

\* C16: for every i64 v, VarInt::to_bytes produces 1 to 9 bytes, and decoding
\* them with VarInt::from_buffer returns v and an empty suffix.
C16_RoundTrip ==
    /\ vi_out.op = "to_bytes"
          => vi_out.status = "ok" /\ Len(vi_buf) >= 1 /\ Len(vi_buf) <= 9
    /\ (vi_out.op = "from_buffer" /\ vi_val # <<>>)
          => vi_out.value = vi_val /\ vi_out.rest = <<>>

\* The input ends before the varint is complete: it is empty, or shorter than
\* 9 bytes with the high bit set in every byte.
Truncated(b) == Len(b) = 0 \/ (Len(b) < 9 /\ \A j \in 1..Len(b) : b[j] >= 128)

\* C17: decoding a varint from an input that ends before the varint is
\* complete fails with a malformed-varint error and returns no value.
C17_TruncatedFails ==
    (vi_out.op \in {"from_buffer", "from_bytes"} /\ Truncated(vi_buf))
    => vi_out.status = "malformed"

(***************************************************************************)
(* Claims about the payload spill                                          *)
(***************************************************************************)
\* The claim's thresholds for the cell read: U, M and X.
ClaimU == pl_in.page_size - pl_in.padding
ClaimM == (((ClaimU - 12) * 32) \div 255) - 23
ClaimX ==
    IF pl_in.kind = "table" THEN ClaimU - 35
    ELSE (((ClaimU - 12) * 64) \div 255) - 23

\* The bytes the claim keeps on the page for a payload of L bytes.
ClaimInPage(L) ==
    LET K == ClaimM + ((L - ClaimM) % (ClaimU - 4))
    IN  IF L <= ClaimX THEN L ELSE IF K <= ClaimX THEN K ELSE ClaimM

\* C18: with U = page_size - page_end_padding, M = ((U - 12) * 32 / 255) - 23
\* and X = U - 35 for a table page, ((U - 12) * 64 / 255) - 23 for an index
\* page, a payload of L <= X bytes is wholly in the page with no overflow;
\* otherwise K = M + ((L - M) mod (U - 4)) bytes are in the page if K <= X and
\* M bytes if not, and the next overflow page is the 4-byte big-endian value
\* right after the in-page bytes.  The overflow page is absent iff L <= X.
C18_SpillDescriptor ==
    pl_out.impl = "btree"
    => LET L == pl_in.payload_size
       IN  /\ pl_out.length = L
           /\ pl_out.base_offset = pl_in.offset
           /\ pl_out.base_offset_end - pl_out.base_offset = ClaimInPage(L)
           /\ (pl_out.next_page = <<>>) <=> (L <= ClaimX)
           /\ L > ClaimX
                 => pl_out.next_page =
                       <<pl_in.after[1] * 16777216 + pl_in.after[2] * 65536
                           + pl_in.after[3] * 256 + pl_in.after[4]>>

\* A payload longer than X whose K exceeds X: M bytes stay in the page and the
\* overflow page number 0x01020304 is read.
C18_Witness ==
    /\ pl_out.impl = "btree"
    /\ pl_in.payload_size > ClaimX
    /\ pl_in.offset = 8
    /\ pl_out.base_offset_end = 8 + ClaimM
    /\ ClaimM < ClaimX
    /\ pl_out.next_page = <<16909060>>

\* The scenario: page size 4096, no end padding, a table leaf payload of
\* 10000 bytes, read without failure.
OverflowScenario ==
    /\ pl_out.status = "ok"
    /\ pl_in.page_size = 4096 /\ pl_in.padding = 0
    /\ pl_in.kind = "table" /\ pl_in.payload_size = 10000

\* The thresholds and the split computed for the scenario: X, M, K, the bytes
\* in the page and the bytes on overflow pages.
ScenarioSplit(X, M, K, in_page, on_overflow) ==
    /\ MaxPagePayload("table", UsableSpace(4096, 0)) = X
    /\ MinPagePayload(UsableSpace(4096, 0)) = M
    /\ SpillK(10000, UsableSpace(4096, 0)) = K
    /\ pl_out.base_offset_end - pl_out.base_offset = in_page
    /\ pl_out.length - (pl_out.base_offset_end - pl_out.base_offset) = on_overflow
    /\ pl_out.next_page # <<>>

\* C19 as stated: with page size 4096, no end padding and a table leaf payload
\* of L = 10000 bytes, X = 4061, M = 485 and K = 1816; 1816 bytes are in the
\* page and 8184 bytes are on overflow pages.
C19_AsStated == OverflowScenario => ScenarioSplit(4061, 485, 1816, 1816, 8184)

\* C19 as amended: in the same scenario X = 4061, M = 489 and K = 1816; 1816
\* bytes are in the page and 8184 bytes are on overflow pages.
C19_OverflowScenario == OverflowScenario => ScenarioSplit(4061, 489, 1816, 1816, 8184)

\* The scenario's payload has been read by the reader that builds the
\* overflow chain.
C19_Witness ==
    /\ pl_out.impl = "structures" /\ pl_out.status = "ok"
    /\ pl_in.page_size = 4096 /\ pl_in.padding = 0
    /\ pl_in.kind = "table" /\ pl_in.payload_size = 10000
    /\ pl_out.base_offset_end = 1816

(***************************************************************************)
(* Claims about the payload chain                                          *)
(***************************************************************************)
\* The bytes the claim takes from the overflow pages from page_id on when
\* `remaining` bytes are still to be delivered: bytes [4 .. U] of each page,
\* U = page size - end padding.  `enough`: the chain does not end before the
\* bytes are delivered.
RECURSIVE ClaimOverflowBytes(_, _)
ClaimOverflowBytes(page_id, remaining) ==
    IF remaining <= 0 THEN [enough |-> TRUE, bytes |-> <<>>]
    ELSE IF page_id = 0 \/ page_id > Len(ch_in.ptrs)
    THEN [enough |-> FALSE, bytes |-> <<>>]
    ELSE LET U == ChainPageSize - ch_in.padding
             rest == ClaimOverflowBytes(ch_in.ptrs[page_id], remaining - (U - 4))
         IN  [enough |-> rest.enough,
              bytes |-> SubSeq(ChainPage(page_id, ch_in.ptrs[page_id]), 5, U)
                          \o rest.bytes]

\* C20: for a payload descriptor of length L whose overflow chain is long
\* enough, copying the payload into a buffer of L bytes yields the in-page
\* bytes followed, for each overflow page in chain order, by bytes [4 .. U] of
\* that page, truncated to L bytes.
C20_CopyPayload ==
    LET overflow == ClaimOverflowBytes(ch_in.next_page, ch_in.length - ch_in.in_page)
    IN  (ch_out.op \in {"chain", "payload"} /\ overflow.enough)
        => /\ ch_out.status = "ok"
           /\ ch_out.buf = SubSeq(InPageBytes(ch_in.in_page) \o overflow.bytes,
                                  1, ch_in.length)

\* The overflow pages needed to deliver `remaining` bytes at U - 4 bytes a
\* page, U = page size - end padding.
RECURSIVE PagesNeeded(_)
PagesNeeded(remaining) ==
    IF remaining <= 0 THEN 0
    ELSE 1 + PagesNeeded(remaining - (ChainPageSize - ch_in.padding - 4))

\* C21: copying a payload terminates for every descriptor and every file: a
\* chain that leads back to a visited page or ends before the length is
\* delivered stops with a failure, the chain is never walked forever, and no
\* more overflow pages are visited than are needed to fill the buffer.
C21_CopyTerminates ==
    ch_out.op = "chain"
    => /\ ch_out.status \in {"ok", "panic"}
       /\ ch_out.status = "ok"
             => Len(OverflowPages(ChainFile(ch_in.ptrs), ch_in.next_page, {}).pages)
                   <= PagesNeeded(ch_in.length - ch_in.in_page)

(***************************************************************************)
(* Claims about records                                                    *)
(***************************************************************************)
\* The claim's body size of a serial type.
ClaimBodySize(t) ==
    CASE t = 0 -> 0 [] t = 1 -> 1 [] t = 2 -> 2 [] t = 3 -> 3 [] t = 4 -> 4
      [] t = 5 -> 6 [] t = 6 -> 8 [] t = 7 -> 8 [] t = 8 -> 0 [] t = 9 -> 0
      [] t >= 12 /\ t % 2 = 0 -> (t - 12) \div 2
      [] t >= 13 /\ t % 2 = 1 -> (t - 13) \div 2
      [] OTHER -> 0

\* Where the body of field i starts: the sum of the body sizes before it.
RECURSIVE ClaimBodyStart(_)
ClaimBodyStart(i) ==
    IF i = 1 THEN 0
    ELSE ClaimBodyStart(i - 1) + ClaimBodySize(rec_in.types[i - 1])

\* The body bytes of field i of the record read.
ClaimBody(i) ==
    SubSeq(rec_buf, 1 + Len(rec_in.types) + ClaimBodyStart(i) + 1,
           1 + Len(rec_in.types) + ClaimBodyStart(i) + ClaimBodySize(rec_in.types[i]))

\* A body as a signed big-endian two's-complement integer, widened to 64 bits.
ClaimSigned(body) ==
    [k \in 1..64 |->
        LET at == IF k <= 64 - 8 * Len(body) THEN 1 ELSE k - (64 - 8 * Len(body))
        IN  (body[((at - 1) \div 8) + 1] \div (2 ^ (7 - ((at - 1) % 8)))) % 2]

\* The variant the claim gives a serial type.
ClaimVariant(t) ==
    CASE t = 0 -> "Null" [] t = 1 -> "I8" [] t = 2 -> "I16" [] t = 3 -> "I24"
      [] t = 4 -> "I32" [] t = 5 -> "I48" [] t = 6 -> "I64" [] t = 7 -> "F64"
      [] t = 8 -> "Zero" [] t = 9 -> "One"
      [] t >= 12 /\ t % 2 = 0 -> "Blob"
      [] t >= 13 /\ t % 2 = 1 -> "String"
      [] OTHER -> "Reserved"

\* Field i of the record read is the field the claim builds from its body.
ClaimFieldRead(i) ==
    LET t == rec_in.types[i]
        f == rec_out.fields[i]
    IN  /\ f.variant = ClaimVariant(t)
        /\ t \in 1..7 => f.int = ClaimSigned(ClaimBody(i))
        /\ t >= 12 => f.bytes = ClaimBody(i)

\* A well-formed record: the body holds exactly the fields' bytes, no serial
\* type is reserved and every text is UTF-8.
WellFormedRecord ==
    /\ rec_in.delta = 0
    /\ \A i \in 1..Len(rec_in.types) :
          /\ rec_in.types[i] \notin {10, 11}
          /\ (rec_in.types[i] >= 13 /\ rec_in.types[i] % 2 = 1)
                => IsUtf8(ClaimBody(i))

\* C22: for every well-formed record buffer Record::from_buf returns one
\* field per serial type of the header, in header order, the i-th built from
\* the body bytes that start at the sum of the body sizes of the fields before
\* it; a record with header length 1 yields no field.
C22_FieldsInOrder ==
    (rec_out # NoRecord /\ WellFormedRecord)
    => /\ rec_out.status = "ok"
       /\ Len(rec_out.fields) = Len(rec_in.types)
       /\ \A i \in 1..Len(rec_in.types) : ClaimFieldRead(i)

\* C23: serial types 1 to 6 decode their 1, 2, 3, 4, 6 and 8 body bytes as a
\* signed big-endian two's-complement integer, for every body: a record of one
\* such field is read, and the field holds that integer.
C23_SignedIntegers ==
    (/\ rec_out # NoRecord /\ rec_in.delta = 0
     /\ Len(rec_in.types) = 1 /\ rec_in.types[1] \in 1..6)
    => /\ rec_out.status = "ok"
       /\ Len(rec_out.fields) = 1
       /\ rec_out.fields[1].int = ClaimSigned(ClaimBody(1))

\* C24: decoding a record whose header holds serial type 10 or 11 fails; no
\* record and no field is returned.
C24_ReservedFails ==
    (/\ rec_out # NoRecord
     /\ \E i \in 1..Len(rec_in.types) : rec_in.types[i] \in {10, 11})
    => rec_out.status # "ok" /\ rec_out.fields = <<>>

\* C27: RecordType::integer returns the decoded value for serial types 1 to
\* 6, 0 for serial type 8 and 1 for serial type 9, and None only for NULL,
\* float, blob, text and reserved fields.
C27_IntegerOfField ==
    rec_int.index # 0
    => LET f == rec_out.fields[rec_int.index]
       IN  /\ f.variant \in {"I8", "I16", "I24", "I32", "I48", "I64"}
                 => rec_int.result = <<f.int>>
           /\ f.variant = "Zero" => rec_int.result = <<[k \in 1..64 |-> 0]>>
           /\ f.variant = "One"
                 => rec_int.result = <<[k \in 1..64 |-> IF k = 64 THEN 1 ELSE 0]>>
           /\ (rec_int.result = <<>>)
                 <=> f.variant \in {"Null", "F64", "Blob", "String", "Reserved"}

(***************************************************************************)
(* Claims about seek offsets                                               *)
(***************************************************************************)
\* The bits of a sequence of bytes, most significant first.
ClaimBits(bytes) ==
    [k \in 1..(8 * Len(bytes)) |->
        (bytes[((k - 1) \div 8) + 1] \div (2 ^ (7 - ((k - 1) % 8)))) % 2]

\* n - 1 on the bits of a positive number.
ClaimMinusOne(n) ==
    LET lowest == CHOOSE k \in 1..Len(n) :
                    n[k] = 1 /\ \A j \in (k + 1)..Len(n) : n[j] = 0
    IN  [k \in 1..Len(n) |-> IF k < lowest THEN n[k] ELSE 1 - n[k]]

\* The product (page_id - 1) * 2^e in 64 bits.
ClaimProduct(page_id, e) ==
    LET wide == [k \in 1..32 |-> 0] \o ClaimMinusOne(ClaimBits(page_id))
    IN  [k \in 1..64 |-> IF k + e <= 64 THEN wide[k + e] ELSE 0]

\* C28: for every valid page size and every page id from 1 to the 32-bit
\* maximum the offset a pager seeks to is the product
\* (page_id - 1) * page_size: the 32-bit multiplication neither wraps nor
\* underflows before it is widened to 64 bits.
C28_OffsetExact ==
    (off_out # NoOffset /\ off_in.page_id # <<0, 0, 0, 0>>)
    => /\ off_out.status = "ok"
       /\ ClaimBits(off_out.offset)
             = ClaimProduct(off_in.page_id,
                            CHOOSE e \in 9..16 : 2 ^ e = DiskHeaderPageSize(off_in.raw))

(***************************************************************************)
(* Claims about the spill thresholds                                       *)
(***************************************************************************)
\* C29: for every header that passes validation (a page size that is a power
\* of two from 512 to 65536) and every page_end_padding from 0 to 255, the
\* spill computation evaluates U - 35, U - 12, M and X without unsigned
\* underflow, and U > 35 and 0 <= M <= X < U for table and index pages.
C29_NoUnderflow ==
    pl_out.impl = "btree"
    => LET U == UsableSpace(pl_in.page_size, pl_in.padding)
           M == MinPagePayload(U)
           X == MaxPagePayload(pl_in.kind, U)
       IN  /\ pl_in.page_size >= pl_in.padding
           /\ U - 35 >= 0
           /\ U - 12 >= 0
           /\ ((U - 12) * 32) \div 255 >= 23
           /\ ((U - 12) * 64) \div 255 >= 23
           /\ U > 35
           /\ 0 <= M /\ M <= X /\ X < U
           /\ pl_out.base_offset_end >= pl_out.base_offset

\* The smallest usable space, 512 - 255 = 257, on an index page: M = 7 and
\* X = 38, and a payload of 39 bytes keeps 7 bytes on the page.
C29_Witness ==
    /\ pl_out.impl = "btree"
    /\ pl_in.page_size = 512 /\ pl_in.padding = 255 /\ pl_in.kind = "index"
    /\ MinPagePayload(257) = 7
    /\ MaxPagePayload("index", 257) = 38
    /\ pl_in.payload_size = 39
    /\ pl_out.base_offset_end - pl_out.base_offset \in 7..38

(***************************************************************************)
(* Claims about the statement parser                                       *)
(***************************************************************************)
\* The statements of the claim, and their lower-case forms.
SelectAllFromUsers == <<"S", "E", "L", "E", "C", "T", " ", "*", " ", "F", "R", "O", "M", " ", "u", "s", "e", "r", "s", ";">>
SelectTwoColumns == <<"S", "E", "L", "E", "C", "T", " ", "c", "1", ",", " ", "c", "2", " ", "F", "R", "O", "M", " ", "t", ";">>
LowerSelectAllFromUsers == <<"s", "e", "l", "e", "c", "t", " ", "*", " ", "f", "r", "o", "m", " ", "u", "s", "e", "r", "s", ";">>
LowerSelectTwoColumns == <<"s", "e", "l", "e", "c", "t", " ", "c", "1", ",", " ", "c", "2", " ", "f", "r", "o", "m", " ", "t", ";">>

\* The claim's result column All, and a column of a name.
ClaimAll == [kind |-> "Punct", text |-> <<"Asterisk">>]
ClaimColumn(name) == [kind |-> "Ident", text |-> name]

\* C25: the statement text `SELECT * FROM users;`, the keywords in upper
\* case, is accepted by the query parser and yields a QueryStatement with
\* table_name = users and the single result column All; `SELECT c1, c2 FROM t;`
\* yields the columns c1, c2 in order.
C25_UpperCaseQuery ==
    pr_out.op = "parse_command"
    => /\ pr_src = SelectAllFromUsers
             => /\ pr_out.status = "ok"
                /\ pr_out.statement.table_name = <<"u", "s", "e", "r", "s">>
                /\ pr_out.statement.result_column = <<ClaimAll>>
       /\ pr_src = SelectTwoColumns
             => /\ pr_out.status = "ok"
                /\ pr_out.statement.table_name = <<"t">>
                /\ pr_out.statement.result_column
                      = <<ClaimColumn(<<"c", "1">>), ClaimColumn(<<"c", "2">>)>>

\* C26: FullBufferParser::step moves the parser's cursor only on success: if
\* the callback returns Ok((value, cursor)) the position becomes that cursor;
\* if it returns Err the position, and is_empty(), are what they were before
\* the call, for any sequence of step calls.
C26_StepOnlyOnSuccess ==
    [][pr_out'.op = "step"
       => /\ pr_out'.status = "ok" => pr_pos' = pr_out'.cursor
          /\ pr_out'.status = "err"
                => /\ pr_pos' = pr_pos
                   /\ Eof(pr_buf', pr_pos') = Eof(pr_buf, pr_pos)]_vars

\* A failed step after a successful one: the callback had advanced past the
\* token at offset 1, and the parser is still at offset 1 and not empty.
C26_Witness ==
    /\ pr_out.op = "step" /\ pr_out.status = "err"
    /\ pr_out.before = 1 /\ pr_out.cursor = 2
    /\ pr_pos = 1
    /\ ~Eof(pr_buf, pr_pos)

\* The tokens from..to of the buffer open this many more delimiters than they
\* close.
RECURSIVE ClaimOpen(_, _)
ClaimOpen(from, to) ==
    IF from > to THEN 0
    ELSE ClaimOpen(from, to - 1)
            + (IF pr_buf[to] = [kind |-> "Punct", text |-> <<"LeftSmooth">>] THEN 1
               ELSE IF pr_buf[to] = [kind |-> "Punct", text |-> <<"RightSmooth">>] THEN -1
               ELSE 0)

\* The places of the closing delimiters that match an opening delimiter at
\* token `open`: the first place where one more is closed than opened.
ClaimClosing(open) ==
    {j \in (open + 1)..Len(pr_buf) :
        /\ ClaimOpen(open + 1, j) = -1
        /\ \A i \in (open + 1)..(j - 1) : ClaimOpen(open + 1, i) >= 0}

\* C30: FullBufferParser::group terminates on every token buffer: when the
\* tokens after the opening delimiter hold no matching closing delimiter the
\* scan stops at the end of the buffer and group returns an error; when they
\* hold one, the inner parser covers exactly the tokens strictly between the
\* matching pair, nested pairs balanced.
C30_GroupTerminates ==
    pr_out.op = "group"
    => /\ pr_out.status \in {"ok", "err"}
       /\ (/\ pr_out.before < Len(pr_buf)
           /\ pr_buf[pr_out.before + 1] = [kind |-> "Punct", text |-> <<"LeftSmooth">>])
          => IF ClaimClosing(pr_out.before + 1) = {}
             THEN pr_out.status = "err"
             ELSE /\ pr_out.status = "ok"
                  /\ \A j \in ClaimClosing(pr_out.before + 1) :
                        pr_out.inner = SubSeq(pr_buf, pr_out.before + 2, j - 1)

====
